---- MODULE Spec2Model ----
(***************************************************************************)
(* asusctl terminal UI: raw-mode lifecycle (terminal.go EnterRaw/ExitRaw), *)
(* frame flush (Terminal.Flush), key decoder (ReadKey) and the event loop  *)
(* with its signal goroutine (main.go).                                    *)
(*                                                                         *)
(* The specifications share the variables:                                 *)
(*   Spec      the whole program, main goroutine and signal goroutine      *)
(*   LiveSpec  Spec with a fair signal goroutine                           *)
(*   ApiSpec   one goroutine calling EnterRaw / ExitRaw in any order       *)
(*   DecSpec   one goroutine calling ReadKey repeatedly on a byte stream   *)
(*   DecLiveSpec  DecSpec with a fair decoder                              *)
(*   CompSpec  one goroutine calling Clear, the draw calls and Flush       *)
(*   SizeSpec  one goroutine calling updateSize on any window size         *)
(***************************************************************************)
EXTENDS Integers, Sequences, FiniteSets, TLC

\* ------------------------------------------------------------------------
\* Bounds of the model
\* ------------------------------------------------------------------------
MaxFrames == 2      \* frames the main loop may flush in one run
MaxLoopFrames == 3  \* frames of one LoopSpec run
MaxCalls == 4       \* EnterRaw / ExitRaw calls of one ApiSpec run
MaxDecLen == 3      \* bytes on the wire in one DecSpec run
MaxLiveLen == 2     \* bytes on the wire in one DecLiveSpec run
MaxDraws == 2       \* draw calls drawn or transmitted in one CompSpec or ThemeSpec run

\* ------------------------------------------------------------------------
\* Terminal settings (syscall.Termios): flag words as sets of flag names
\* ------------------------------------------------------------------------
ZeroTermios == [iflag |-> {}, oflag |-> {}, cflag |-> {}, lflag |-> {},
                vmin |-> 0, vtime |-> 0]

CookedTermios == [iflag |-> {"BRKINT", "ICRNL", "IXON", "IUTF8"},
                  oflag |-> {"OPOST", "ONLCR"},
                  cflag |-> {"CS8", "CREAD"},
                  lflag |-> {"ECHO", "ICANON", "IEXTEN", "ISIG", "ECHOE"},
                  vmin |-> 1, vtime |-> 0]

SevenBitTermios == [iflag |-> {"BRKINT", "ICRNL", "INPCK", "ISTRIP", "IXON"},
                    oflag |-> {"OPOST"},
                    cflag |-> {"CS7", "CREAD"},
                    lflag |-> {"ICANON", "ISIG"},
                    vmin |-> 1, vtime |-> 0]

NoEchoTermios == [iflag |-> {"IUTF8"},
                  oflag |-> {},
                  cflag |-> {"CS8", "CREAD"},
                  lflag |-> {"ISIG"},
                  vmin |-> 0, vtime |-> 1]

InitialTermios == {CookedTermios, SevenBitTermios, NoEchoTermios}

MakeRaw_NoTimeout(orig) ==
    [iflag |-> orig.iflag \ {"BRKINT", "ICRNL", "INPCK", "ISTRIP", "IXON"},
     oflag |-> orig.oflag \ {"OPOST"},
     cflag |-> orig.cflag \cup {"CS8"},
     lflag |-> orig.lflag \ {"ECHO", "ICANON", "IEXTEN", "ISIG"},
     vmin |-> 1, vtime |-> 0]

\* terminal.go 74-85: the raw settings computed from the queried ones
MakeRaw(orig) ==
    [iflag |-> orig.iflag \ {"BRKINT", "ICRNL", "INPCK", "ISTRIP", "IXON"},
     oflag |-> orig.oflag \ {"OPOST"},
     cflag |-> orig.cflag \cup {"CS8"},
     lflag |-> orig.lflag \ {"ECHO", "ICANON", "IEXTEN", "ISIG"},
     vmin |-> 0, vtime |-> 1]

\* ------------------------------------------------------------------------
\* Escape directives, as tokens; one element of out is one write call
\* ------------------------------------------------------------------------
AltOn == "ESC[?1049h"
AltOff == "ESC[?1049l"
CurHide == "ESC[?25l"
CurShow == "ESC[?25h"
CurHome == "ESC[H"

\* terminal.go 97
EnterSeq == <<AltOn, CurHide>>

RestoreSeq_NoAltOff == <<CurShow>>

\* terminal.go 106
RestoreSeq == <<CurShow, AltOff>>

\* terminal.go 160
FlushHead == <<CurHide, CurHome>>

FrameWrites_PerCall(b) == [i \in 1..Len(b) |-> <<b[i]>>]

\* terminal.go 161: the frame buffer is handed to one WriteString call
FrameWrites(b) == <<b>>

\* terminal.go 162
FlushTail == <<CurShow>>

\* stands for the draw calls of one App.Render between Clear and Flush
FrameText == "FRAME"

\* kinds of standard input: a terminal, a descriptor that is no terminal
\* (TCGETS fails), a terminal that refuses TCSETS
TtyKinds == {"ok", "notty", "noset"}

Threads == {"main", "sig"}

VARIABLES
    tty,          \* kind of the standard input, fixed for the process
    termios0,     \* history: settings in force when the process started
    typed,        \* history: every byte typed during the run, in order
    termios,      \* settings in force on the terminal
    origTermios,  \* Terminal.origTermios
    inRaw,        \* Terminal.inRaw
    buf,          \* Terminal.buf
    mu,           \* Terminal.mu: "" or the goroutine holding it
    out,          \* writes made to standard output, in order
    errOut,       \* writes made to standard error, in order
    pc,           \* position of each goroutine
    ret,          \* where each goroutine's ExitRaw call returns to
    sigCh,        \* signals buffered in sigCh (capacity 1)
    winchCh,      \* signals buffered in winchCh (capacity 1)
    handlers,     \* signal.Notify(sigCh, SIGINT, SIGTERM) has run
    proc,         \* "running" or "exited"
    exitCode,     \* exit status once exited
    exitVia,      \* how the process ended
    app,          \* the App fields the event loop depends on
    wire,         \* bytes typed that have not yet reached the terminal queue
    stdin,        \* bytes waiting in the terminal input queue
    rbuf,         \* buffer of the bufio.Reader of the current ReadKey call
    key,          \* KeyEvent returned by the last ReadKey call
    taken,        \* history: bytes the current ReadKey call removed from stdin
    used,         \* history: bytes the current ReadKey call got from ReadByte
    reads,        \* history: ReadByte calls made by the current ReadKey call
    hup,          \* the terminal has hung up: reads fail at once
    events,       \* history: key events passed to App.HandleKey, in order
    sink,         \* standard output: "ok", or "broken" (writes fail)
    drawn,        \* history: output of each draw call since the last Clear
    sent,         \* history: per Flush call, the draw output it was given
    wsz,          \* what the window-size query reports
    width,        \* Terminal.width
    height,       \* Terminal.height
    pass,         \* history: what main did in the current pass of its loop
    call,         \* history: the last helper called and what it produced
    given,        \* what a run is made with: the arguments of the bar, slider and
                  \* pad calls, and the number of frames main may render
    run,          \* the Backend.run call in progress: its goroutines and channel
    keys,         \* history: HandleKey calls made on the App
    applies,      \* history: times ExitRaw re-applied the saved settings
    ops,          \* history: outcomes of the completed EnterRaw/ExitRaw calls
    snap          \* history: settings in force before the last EnterRaw

envVars == <<tty, termios0, typed>>
ttyVars == <<termios, origTermios, inRaw>>
ioVars == <<buf, mu, out, errOut>>
ctlVars == <<pc, ret>>
sigVars == <<sigCh, winchCh, handlers>>
endVars == <<proc, exitCode, exitVia>>
inVars == <<wire, stdin, rbuf, key, taken, used, reads>>
histVars == <<applies, ops, snap>>
moreVars == <<hup, events, sink, drawn, sent, wsz, width, height>>
auxVars == <<pass, call, given, run, keys>>
vars == <<auxVars, envVars, ttyVars, ioVars, ctlVars, sigVars, endVars, app, inVars, histVars,
          moreVars>>

\* ------------------------------------------------------------------------
\* Helpers on sequences
\* ------------------------------------------------------------------------
Min(a, b) == IF a < b THEN a ELSE b

\* terminal.go 285-290
RECURSIVE rep(_, _)
rep(ch, n) == IF n <= 0 THEN "" ELSE ch \o rep(ch, n - 1)

\* terminal.go 292-304
min(a, b) == IF a < b THEN a ELSE b
max(a, b) == IF a > b THEN a ELSE b

\* terminal.go 306-314
clamp(v, lo, hi) == IF v < lo THEN lo ELSE IF v > hi THEN hi ELSE v

\* Go's int(f) of the quotient n / d, d > 0: the fraction is dropped, so the
\* result is rounded toward zero
Trunc(n, d) == IF n >= 0 THEN n \div d ELSE -((-n) \div d)

\* number of elements of s equal to x
Count(s, x) == Cardinality({i \in 1..Len(s) : s[i] = x})

\* all tokens written, in order
RECURSIVE Flatten(_)
Flatten(ws) == IF ws = <<>> THEN <<>> ELSE Head(ws) \o Flatten(Tail(ws))

\* the last token of s that belongs to set D, or dflt when there is none
RECURSIVE LastIn(_, _, _)
LastIn(s, D, dflt) ==
    IF s = <<>> THEN dflt
    ELSE IF s[Len(s)] \in D THEN s[Len(s)]
    ELSE LastIn(SubSeq(s, 1, Len(s) - 1), D, dflt)

\* what the terminal shows after the writes in out: a terminal starts on the
\* main screen with the cursor visible
Screen == LastIn(Flatten(out), {AltOn, AltOff}, AltOff)
Cursor == LastIn(Flatten(out), {CurHide, CurShow}, CurShow)

\* ------------------------------------------------------------------------
\* Key events (terminal.go 167-193)
\* ------------------------------------------------------------------------
KeyTypes == {"KeyChar", "KeyEnter", "KeyEscape", "KeyBackspace", "KeyTab",
             "KeyUp", "KeyDown", "KeyLeft", "KeyRight", "KeyHome", "KeyEnd",
             "KeyPgUp", "KeyPgDn", "KeyDelete",
             "KeyCtrlC", "KeyCtrlQ", "KeyCtrlS", "KeyCtrlR"}

KeyEvent(t, c) == [Type |-> t, Char |-> c]

\* value of key before any ReadKey call has returned
NoKey == [Type |-> "none", Char |-> 0]

\* main.go 55: the timeout event
IsIdle(k) == k.Type = "KeyChar" /\ k.Char = 0

\* ------------------------------------------------------------------------
\* Terminal.updateSize (terminal.go 44-58)
\* ------------------------------------------------------------------------
MinWidth == 40
MinHeight == 10
DefaultWidth == 80
DefaultHeight == 24

\* a window-size report: the query succeeded or not, columns and rows
WinSize(c, r) == [ok |-> TRUE, col |-> c, row |-> r]
QueryFails == [ok |-> FALSE, col |-> 0, row |-> 0]

\* terminal.go 45-51: the result of the ioctl is dropped, so a failed query
\* leaves the zero value of winsize
Reported(w) == IF w.ok THEN [col |-> w.col, row |-> w.row]
               ELSE [col |-> 0, row |-> 0]

ClampWidth_NoFloor(c) == IF c < 1 THEN DefaultWidth ELSE c

\* terminal.go 52-54
ClampWidth(c) == IF c < MinWidth THEN DefaultWidth ELSE c

\* terminal.go 55-57
ClampHeight(r) == IF r < MinHeight THEN DefaultHeight ELSE r

updateSize_Pair(w) ==
    IF Reported(w).col < MinWidth \/ Reported(w).row < MinHeight
    THEN [width |-> DefaultWidth, height |-> DefaultHeight]
    ELSE [width |-> Reported(w).col, height |-> Reported(w).row]

\* terminal.go 44-58: the stored dimensions after a query reporting w
updateSize(w) == [width |-> ClampWidth(Reported(w).col),
                  height |-> ClampHeight(Reported(w).row)]

\* window sizes during one run of the program
StartSize == WinSize(100, 30)
MainWinSizes == {StartSize, WinSize(20, 17)}

\* ------------------------------------------------------------------------
\* Writes to standard output: a write to a broken output fails and writes
\* nothing
\* ------------------------------------------------------------------------
Emit(ws) == IF sink = "ok" THEN out \o ws ELSE out

\* ------------------------------------------------------------------------
\* Terminal.EnterRaw (terminal.go 63-99), one call as one step
\* ------------------------------------------------------------------------
\* terminal.go 65-71: the TCGETS query fails when stdin is not a terminal
GetFails == tty = "notty"

\* terminal.go 87-93: the TCSETS apply fails
SetFails == tty # "ok"

EnterRawFailed_IgnoresSet(getErr, setErr) == getErr

\* terminal.go 69-71, 91-93: EnterRaw returns an error
EnterRawFailed(getErr, setErr) == getErr \/ setErr

EnterRawErr == EnterRawFailed(GetFails, SetFails)

EnterRawWrites_BeforeApply(failed) == <<EnterSeq>>

\* terminal.go 97: the directives written by a call, none when it failed
EnterRawWrites(failed) == IF failed THEN <<>> ELSE <<EnterSeq>>

SavedSettings_Modified(queried) == MakeRaw(queried)

\* terminal.go 72: the snapshot kept for ExitRaw
SavedSettings(queried) == queried

EnterRawBody ==
    /\ origTermios' = IF GetFails THEN origTermios ELSE SavedSettings(termios)
    /\ termios' = IF GetFails \/ SetFails THEN termios ELSE MakeRaw(termios)
    /\ inRaw' = IF EnterRawErr THEN inRaw ELSE TRUE
    /\ out' = out \o EnterRawWrites(EnterRawErr)
    /\ snap' = termios
    /\ ops' = Append(ops, IF EnterRawErr THEN "acquire_err" ELSE "acquire_ok")

\* ------------------------------------------------------------------------
\* Terminal.ExitRaw (terminal.go 101-112), one step per statement: the
\* method takes no lock, so the goroutines' steps interleave
\* ------------------------------------------------------------------------
ExitRawActs_Always(flag) == TRUE

\* terminal.go 102: the idempotency flag
ExitRawActs(flag) == flag

\* terminal.go 107-110: the settings ExitRaw applies
RestoredSettings(saved, current) == saved

\* terminal.go 102-104
ExitRawCheck(self) ==
    /\ proc = "running"
    /\ pc[self] = "ex_check"
    /\ IF ExitRawActs(inRaw)
       THEN /\ pc' = [pc EXCEPT ![self] = "ex_write"]
            /\ ops' = ops
       ELSE /\ pc' = [pc EXCEPT ![self] = ret[self]]
            /\ ops' = Append(ops, "release_noop")
    /\ UNCHANGED <<moreVars, auxVars, envVars, ttyVars, ioVars, ret, sigVars, endVars, app,
                   inVars, applies, snap>>

\* terminal.go 106: the directives go to standard output with fmt.Fprint,
\* not through the frame buffer
ExitRawWrite_ThroughBuffer(self) ==
    /\ proc = "running"
    /\ pc[self] = "ex_write"
    /\ out' = Append(out, RestoreSeq)
    /\ buf' = <<>>
    /\ pc' = [pc EXCEPT ![self] = "ex_ioctl"]
    /\ UNCHANGED <<moreVars, auxVars, envVars, ttyVars, mu, errOut, ret, sigVars, endVars,
                   app, inVars, histVars>>

ExitRawWrite(self) ==
    /\ proc = "running"
    /\ pc[self] = "ex_write"
    /\ out' = Append(out, RestoreSeq)
    /\ pc' = [pc EXCEPT ![self] = "ex_ioctl"]
    /\ UNCHANGED <<moreVars, auxVars, envVars, ttyVars, buf, mu, errOut, ret, sigVars, endVars,
                   app, inVars, histVars>>

\* terminal.go 107-110: the result of the call is dropped
ExitRawIoctl(self) ==
    /\ proc = "running"
    /\ pc[self] = "ex_ioctl"
    /\ termios' = IF SetFails THEN termios
                  ELSE RestoredSettings(origTermios, termios)
    /\ applies' = applies + 1
    /\ pc' = [pc EXCEPT ![self] = "ex_clear"]
    /\ UNCHANGED <<moreVars, auxVars, envVars, origTermios, inRaw, ioVars, ret, sigVars, endVars,
                   app, inVars, ops, snap>>

\* terminal.go 111
ExitRawClear(self) ==
    /\ proc = "running"
    /\ pc[self] = "ex_clear"
    /\ inRaw' = FALSE
    /\ ops' = Append(ops, "release")
    /\ pc' = [pc EXCEPT ![self] = ret[self]]
    /\ UNCHANGED <<moreVars, auxVars, envVars, termios, origTermios, ioVars, ret, sigVars,
                   endVars, app, inVars, applies, snap>>

ExitRawStep(self) ==
    \/ ExitRawCheck(self)
    \/ ExitRawWrite(self)
    \/ ExitRawIoctl(self)
    \/ ExitRawClear(self)

\* ------------------------------------------------------------------------
\* ReadKey (terminal.go 195-258), one step per ReadByte
\* ------------------------------------------------------------------------
\* size of the buffer of bufio.NewReader
BufioSize == 4096

ESC == 27
LBracket == 91
Tilde == 126

\* bufio.Reader.fill: one read of the terminal queue takes every byte that
\* is waiting, up to the size of the buffer
ReadSize(avail) == Min(avail, BufioSize)

\* terminal.go 83-85: with VMIN = 0 a read of an empty queue returns when
\* the VTIME timer runs out; with VMIN > 0 or a line-buffered terminal it
\* waits for input
ReadWaits(t) == t.vmin > 0 \/ "ICANON" \in t.lflag

\* a ReadByte call returns: from the buffer, from the queue, with the error
\* of a hung-up terminal, or on the timeout
CanRead == rbuf # <<>> \/ stdin # <<>> \/ hup \/ ~ReadWaits(termios)

\* reader.ReadByte() on reader buffer rb and terminal queue q: the byte comes
\* from the buffer; an empty buffer is first filled by one read of the queue,
\* which returns no byte (timeout, or error) when nothing is waiting
ReadByte(rb, q) ==
    IF rb # <<>>
    THEN [err |-> FALSE, b |-> Head(rb), rbuf |-> Tail(rb), stdin |-> q, n |-> 0]
    ELSE IF q = <<>>
    THEN [err |-> TRUE, b |-> 0, rbuf |-> <<>>, stdin |-> q, n |-> 0]
    ELSE LET n == ReadSize(Len(q))
         IN  [err |-> FALSE, b |-> q[1], rbuf |-> SubSeq(q, 2, n),
              stdin |-> SubSeq(q, n + 1, Len(q)), n |-> n]

LiteralKey_Zero(b) == KeyEvent("KeyChar", 0)

\* terminal.go 253-257: the default branch, a character event carrying
\* rune(b), the code point of the byte
LiteralKey(b) == KeyEvent("KeyChar", b)

FirstByteKey_Swapped(b) ==
    CASE b = 0 -> KeyEvent("KeyChar", 0)
      [] b = 3 -> KeyEvent("KeyCtrlC", 0)
      [] b = 17 -> KeyEvent("KeyCtrlQ", 0)
      [] b = 18 -> KeyEvent("KeyCtrlS", 0)
      [] b = 19 -> KeyEvent("KeyCtrlR", 0)
      [] b = 9 -> KeyEvent("KeyTab", 0)
      [] b \in {10, 13} -> KeyEvent("KeyEnter", 0)
      [] b = 127 -> KeyEvent("KeyBackspace", 0)
      [] OTHER -> LiteralKey(b)

\* terminal.go 202-216, 253-257: the event of a first byte other than ESC
FirstByteKey(b) ==
    CASE b = 0 -> KeyEvent("KeyChar", 0)
      [] b = 3 -> KeyEvent("KeyCtrlC", 0)
      [] b = 17 -> KeyEvent("KeyCtrlQ", 0)
      [] b = 18 -> KeyEvent("KeyCtrlR", 0)
      [] b = 19 -> KeyEvent("KeyCtrlS", 0)
      [] b = 9 -> KeyEvent("KeyTab", 0)
      [] b \in {10, 13} -> KeyEvent("KeyEnter", 0)
      [] b = 127 -> KeyEvent("KeyBackspace", 0)
      [] OTHER -> LiteralKey(b)

ThirdByteKey_Literal(b) ==
    CASE b = 65 -> KeyEvent("KeyUp", 0)
      [] b = 66 -> KeyEvent("KeyDown", 0)
      [] b = 67 -> KeyEvent("KeyRight", 0)
      [] b = 68 -> KeyEvent("KeyLeft", 0)
      [] b = 72 -> KeyEvent("KeyHome", 0)
      [] b = 70 -> KeyEvent("KeyEnd", 0)
      [] b = 51 -> KeyEvent("KeyDelete", 0)
      [] b = 53 -> KeyEvent("KeyPgUp", 0)
      [] b = 54 -> KeyEvent("KeyPgDn", 0)
      [] OTHER -> KeyEvent("KeyChar", b)

\* terminal.go 227-250: the event of the third byte of ESC [ x
ThirdByteKey(b) ==
    CASE b = 65 -> KeyEvent("KeyUp", 0)
      [] b = 66 -> KeyEvent("KeyDown", 0)
      [] b = 67 -> KeyEvent("KeyRight", 0)
      [] b = 68 -> KeyEvent("KeyLeft", 0)
      [] b = 72 -> KeyEvent("KeyHome", 0)
      [] b = 70 -> KeyEvent("KeyEnd", 0)
      [] b = 51 -> KeyEvent("KeyDelete", 0)
      [] b = 53 -> KeyEvent("KeyPgUp", 0)
      [] b = 54 -> KeyEvent("KeyPgDn", 0)
      [] OTHER -> KeyEvent("KeyEscape", 0)

\* terminal.go 240-248: third bytes after which one more byte is read
WantsFourth(b) == b \in {51, 53, 54}

\* the bookkeeping of one ReadByte whose result is r
Consume(r) ==
    /\ rbuf' = r.rbuf
    /\ stdin' = r.stdin
    /\ taken' = taken + r.n
    /\ used' = IF r.err THEN used ELSE Append(used, r.b)
    /\ reads' = reads + 1

\* terminal.go 196-217
ReadKey1 ==
    /\ proc = "running"
    /\ pc["main"] = "rk_b1"
    /\ CanRead
    /\ LET r == ReadByte(rbuf, stdin)
       IN  /\ Consume(r)
           /\ IF r.err
              THEN /\ key' = KeyEvent("KeyChar", 0)
                   /\ pc' = [pc EXCEPT !["main"] = "rk_ret"]
              ELSE IF r.b = ESC
              THEN /\ key' = key
                   /\ pc' = [pc EXCEPT !["main"] = "rk_b2"]
              ELSE /\ key' = FirstByteKey(r.b)
                   /\ pc' = [pc EXCEPT !["main"] = "rk_ret"]
    /\ UNCHANGED <<moreVars, auxVars, envVars, ttyVars, ioVars, ret, sigVars, endVars, app, wire,
                   histVars>>

\* terminal.go 218-222, 252
ReadKey2 ==
    /\ proc = "running"
    /\ pc["main"] = "rk_b2"
    /\ CanRead
    /\ LET r == ReadByte(rbuf, stdin)
       IN  /\ Consume(r)
           /\ IF ~r.err /\ r.b = LBracket
              THEN /\ key' = key
                   /\ pc' = [pc EXCEPT !["main"] = "rk_b3"]
              ELSE /\ key' = KeyEvent("KeyEscape", 0)
                   /\ pc' = [pc EXCEPT !["main"] = "rk_ret"]
    /\ UNCHANGED <<moreVars, auxVars, envVars, ttyVars, ioVars, ret, sigVars, endVars, app, wire,
                   histVars>>

\* terminal.go 223-250
ReadKey3 ==
    /\ proc = "running"
    /\ pc["main"] = "rk_b3"
    /\ CanRead
    /\ LET r == ReadByte(rbuf, stdin)
       IN  /\ Consume(r)
           /\ IF r.err
              THEN /\ key' = KeyEvent("KeyEscape", 0)
                   /\ pc' = [pc EXCEPT !["main"] = "rk_ret"]
              ELSE /\ key' = ThirdByteKey(r.b)
                   /\ pc' = [pc EXCEPT !["main"] =
                                IF WantsFourth(r.b) THEN "rk_b4" ELSE "rk_ret"]
    /\ UNCHANGED <<moreVars, auxVars, envVars, ttyVars, ioVars, ret, sigVars, endVars, app, wire,
                   histVars>>

\* terminal.go 241, 244, 247: the byte after the digit is read and dropped,
\* whatever it is and whether or not the read succeeded
ReadKey4 ==
    /\ proc = "running"
    /\ pc["main"] = "rk_b4"
    /\ CanRead
    /\ Consume(ReadByte(rbuf, stdin))
    /\ pc' = [pc EXCEPT !["main"] = "rk_ret"]
    /\ UNCHANGED <<moreVars, auxVars, envVars, ttyVars, ioVars, ret, sigVars, endVars, app, wire,
                   key, histVars>>

ReadKeyStep == ReadKey1 \/ ReadKey2 \/ ReadKey3 \/ ReadKey4

\* the terminal delivers the next n typed bytes to the input queue
Arrive ==
    /\ proc = "running"
    /\ ~hup
    /\ wire # <<>>
    /\ \E n \in 1..Len(wire) :
          /\ stdin' = stdin \o SubSeq(wire, 1, n)
          /\ wire' = SubSeq(wire, n + 1, Len(wire))
    /\ UNCHANGED <<moreVars, auxVars, envVars, ttyVars, ioVars, ctlVars, sigVars, endVars, app,
                   rbuf, key, taken, used, reads, histVars>>

\* ------------------------------------------------------------------------
\* App (app.go 13-235): the fields the key handlers read and write.  Go
\* indexes from 0 and so do the App fields; At reads a Go slice
\* ------------------------------------------------------------------------
TabProfile == 0
TabKeyboard == 1
TabAura == 2
TabBattery == 3
TabFans == 4
TabBios == 5
TabConsole == 6

At(s, i) == s[i + 1]

\* app.go 459, 83, 85-88, 96-106, 108
profiles == <<"Performance", "Balanced", "Quiet">>
kbdValues == <<"off", "low", "med", "high">>
auraModes ==
    <<"Static", "Breathe", "Rainbow Cycle", "Rainbow Wave", "Stars", "Rain",
      "Highlight", "Laser", "Ripple", "Pulse", "Comet", "Flash">>
auraColours ==
    <<<<255, 0, 0>>, <<255, 102, 0>>, <<255, 204, 0>>, <<0, 255, 0>>,
      <<0, 255, 255>>, <<0, 0, 255>>, <<136, 0, 255>>, <<255, 0, 170>>,
      <<255, 255, 255>>>>
auraSpeeds == <<"low", "med", "high">>

\* app.go 112-135
auraEffectNeedsColour1(mode) == mode \notin {"Rainbow Cycle", "Rainbow Wave", "Rain"}
auraEffectNeedsColour2(mode) == mode \in {"Breathe", "Stars"}
auraEffectNeedsSpeed(mode) == mode \notin {"Static", "Pulse", "Comet", "Flash"}

\* app.go 985-990
fanPresets ==
    [silent |-> <<0, 0, 0, 10, 20, 35, 45, 50>>,
     balanced |-> <<0, 5, 10, 20, 35, 55, 65, 65>>,
     performance |-> <<15, 25, 35, 50, 65, 80, 90, 100>>,
     full |-> <<100, 100, 100, 100, 100, 100, 100, 100>>]

\* stands for the text of any status message: every message SetStatus is
\* called with is a non-empty string
StatusText == "status"

\* app.go 137-153; consoleInput is the sequence of the characters typed, a
\* consoleLog entry keeps the command logged (for a console command the
\* line typed, in Input) and whether it succeeded
NewApp ==
    [running |-> TRUE, activeTab |-> TabProfile, focusIdx |-> 0,
     profile |-> "Balanced", kbdLevel |-> 2,
     auraMode |-> 0, auraSection |-> 0, auraColour1 |-> 0, auraColour2 |-> 4,
     auraSpeed |-> 1, chargeLimit |-> 80,
     selectedFan |-> 0,
     fanSpeeds |-> <<<<0, 5, 10, 20, 35, 55, 65, 65>>,
                     <<0, 5, 10, 15, 30, 50, 60, 60>>>>,
     fanEnabled |-> FALSE, panelOverdrive |-> FALSE, gpuMuxDedicated |-> FALSE,
     consoleInput |-> <<>>, consoleLog |-> <<>>, consoleScroll |-> 0,
     installed |-> FALSE, statusMsg |-> "", statusOk |-> FALSE]

\* the App fields before NewApp has run
NoApp == [NewApp EXCEPT !.running = FALSE]

\* app.go 218-222
SetStatus(a, ok) == [a EXCEPT !.statusMsg = StatusText, !.statusOk = ok]

\* app.go 224-235
LogCap == 100
ConsoleLine(cmd, input, ok) == [Command |-> cmd, Input |-> input, Ok |-> ok]
KeepLast_All(log) == log
KeepLast(log) ==
    IF Len(log) > LogCap THEN SubSeq(log, Len(log) - LogCap + 1, Len(log)) ELSE log
addLog(a, line) == [a EXCEPT !.consoleLog = KeepLast(Append(@, line))]

\* ------------------------------------------------------------------------
\* What App.Init reads from the backend (app.go 155-216, backend.go 50-135)
\* ------------------------------------------------------------------------
\* the first position (from 0) of v in the slice s, or dflt
IndexOf(s, v, dflt) ==
    LET at == {i \in 1..Len(s) : s[i] = v}
    IN  IF at = {} THEN dflt ELSE (CHOOSE i \in at : \A j \in at : i <= j) - 1

\* strings.ToLower on the speed names of the configuration file
ToLower(s) ==
    CASE s = "Low" -> "low"
      [] s = "Med" -> "med"
      [] s = "High" -> "high"
      [] OTHER -> s

\* app.go 175-182
displayMode(m) ==
    CASE m = "RainbowCycle" -> "Rainbow Cycle"
      [] m = "RainbowWave" -> "Rainbow Wave"
      [] OTHER -> m

\* app.go 201-216: the first colour at the least squared distance
dist(c, r, g, b) ==
    (c[1] - r) * (c[1] - r) + (c[2] - g) * (c[2] - g) + (c[3] - b) * (c[3] - b)
closestAuraColour(r, g, b) ==
    (CHOOSE i \in 1..Len(auraColours) :
        \A j \in 1..Len(auraColours) :
            \/ dist(auraColours[i], r, g, b) < dist(auraColours[j], r, g, b)
            \/ dist(auraColours[i], r, g, b) = dist(auraColours[j], r, g, b) /\ i <= j) - 1

\* app.go 173-199
initAuraState(a, aura) ==
    [a EXCEPT !.auraMode = IndexOf(auraModes, displayMode(aura.Mode), @),
              !.auraColour1 = closestAuraColour(aura.c1[1], aura.c1[2], aura.c1[3]),
              !.auraColour2 = closestAuraColour(aura.c2[1], aura.c2[2], aura.c2[3]),
              !.auraSpeed = IndexOf(auraSpeeds, ToLower(aura.Speed), @)]

\* A field of the command output is the sequence of its characters.
\* strings.TrimSuffix(field, "%") and strconv.Atoi (backend.go 122-124)
Percent == 37
TrimSuffix(f) == IF f # <<>> /\ f[Len(f)] = Percent THEN SubSeq(f, 1, Len(f) - 1) ELSE f
IsDigit(c) == c >= 48 /\ c <= 57
RECURSIVE DigitsValue(_)
DigitsValue(d) ==
    IF d = <<>> THEN 0
    ELSE 10 * DigitsValue(SubSeq(d, 1, Len(d) - 1)) + (d[Len(d)] - 48)
Atoi(f) ==
    LET signed == f # <<>> /\ f[1] \in {43, 45}
        digits == IF signed THEN Tail(f) ELSE f
    IN  IF digits = <<>> \/ \E i \in 1..Len(digits) : ~IsDigit(digits[i])
        THEN [err |-> TRUE, v |-> 0]
        ELSE [err |-> FALSE,
              v |-> IF signed /\ f[1] = 45 THEN 0 - DigitsValue(digits)
                    ELSE DigitsValue(digits)]

\* backend.go 118-130 (the full file): the first field that is a number
\* within 20..100, or 80
ChargeMin == 20
ChargeMax == 100
ChargeDefault == 80
GetChargeLimit(ok, fields) ==
    LET good == {i \in 1..Len(fields) :
                    /\ ~Atoi(TrimSuffix(fields[i])).err
                    /\ Atoi(TrimSuffix(fields[i])).v >= ChargeMin
                    /\ Atoi(TrimSuffix(fields[i])).v <= ChargeMax}
    IN  IF ok /\ good # {}
        THEN Atoi(TrimSuffix(fields[CHOOSE i \in good : \A j \in good : i <= j])).v
        ELSE ChargeDefault

\* app.go 155-171: b is what the backend answers: whether asusctl is
\* installed, the results of GetProfile and GetKbdBrightness, the outcome
\* and the output fields of "battery info", and the Aura state read from
\* the configuration file (<<>> when there is none)
AppInit(a, b) ==
    IF ~b.installed THEN a
    ELSE LET a1 == [a EXCEPT !.installed = TRUE,
                             !.profile = b.profile,
                             !.kbdLevel = IndexOf(kbdValues, b.kbd, @),
                             !.chargeLimit = GetChargeLimit(b.chargeOk, b.chargeOut)]
         IN  IF b.aura = <<>> THEN a1 ELSE initAuraState(a1, b.aura)

\* ------------------------------------------------------------------------
\* The key handlers (app.go 452-1411).  ok is the outcome of the backend
\* command a handler runs, W is Terminal.Width()
\* ------------------------------------------------------------------------
\* app.go 461-467, 537-543: the setting follows the backend's answer
Accepted_Always(old, new, ok) == new
Accepted(old, new, ok) == IF ok THEN new ELSE old

\* app.go 452-470
handleProfile(a, k, ok) ==
    CASE k.Type = "KeyUp" -> [a EXCEPT !.focusIdx = (@ + 2) % 3]
      [] k.Type = "KeyDown" -> [a EXCEPT !.focusIdx = (@ + 1) % 3]
      [] k.Type = "KeyEnter" ->
            LET p == At(profiles, a.focusIdx)
            IN  addLog(SetStatus([a EXCEPT !.profile = Accepted(@, p, ok)], ok),
                       ConsoleLine("profile --profile-set " \o p, <<>>, ok))
      [] OTHER -> a

\* app.go 529-546
handleKeyboard(a, k, ok) ==
    CASE k.Type = "KeyUp" -> [a EXCEPT !.focusIdx = (@ + 3) % 4]
      [] k.Type = "KeyDown" -> [a EXCEPT !.focusIdx = (@ + 1) % 4]
      [] k.Type = "KeyEnter" ->
            addLog(SetStatus([a EXCEPT !.kbdLevel = Accepted(@, a.focusIdx, ok)], ok),
                   ConsoleLine("--kbd-bright " \o At(kbdValues, a.focusIdx), <<>>, ok))
      [] OTHER -> a

\* app.go 709-723: the sections the current mode uses, the mode grid first
auraSections(a) ==
    LET mode == At(auraModes, a.auraMode)
    IN  <<0>> \o (IF auraEffectNeedsColour1(mode) THEN <<1>> ELSE <<>>)
             \o (IF auraEffectNeedsColour2(mode) THEN <<2>> ELSE <<>>)
             \o (IF auraEffectNeedsSpeed(mode) THEN <<3>> ELSE <<>>)

InSections(a) == \E i \in 1..Len(auraSections(a)) : auraSections(a)[i] = a.auraSection

\* app.go 725-738
auraClampSection(a) ==
    IF InSections(a) THEN a
    ELSE [a EXCEPT !.auraSection = 0, !.focusIdx = a.auraMode]

\* app.go 757-766, 787-794, 798-805: entering section sec puts the focus on
\* the value that section holds; withMode is false where the switch has no
\* case 0
EnterSection(a, sec, withMode) ==
    [a EXCEPT !.auraSection = sec,
              !.focusIdx = CASE sec = 0 /\ withMode -> a.auraMode
                             [] sec = 1 -> a.auraColour1
                             [] sec = 2 -> a.auraColour2
                             [] sec = 3 -> a.auraSpeed
                             [] OTHER -> @]

\* app.go 807-826: the length of the list a section steps through
SectionLen(sec) ==
    CASE sec = 0 -> Len(auraModes)
      [] sec \in {1, 2} -> Len(auraColours)
      [] sec = 3 -> Len(auraSpeeds)
      [] OTHER -> 0

\* app.go 740-872
handleAura(a, k, ok, W) ==
    LET cols == IF W > 80 THEN 4 ELSE 3
        sections == auraSections(a)
        cur == IndexOf(sections, a.auraSection, -1)
        n == Len(auraModes)
    IN  CASE k.Type = "KeyUp" ->
                IF cur > 0 THEN EnterSection(a, At(sections, cur - 1), TRUE)
                ELSE IF a.auraSection = 0
                THEN LET f == a.focusIdx - cols
                     IN  [a EXCEPT !.focusIdx =
                             IF f >= 0 THEN f
                             ELSE IF f + n >= n THEN n - 1 ELSE f + n]
                ELSE a
          [] k.Type = "KeyDown" ->
                IF a.auraSection = 0
                THEN IF a.focusIdx + cols < n
                     THEN [a EXCEPT !.focusIdx = @ + cols]
                     ELSE IF cur < Len(sections) - 1
                     THEN EnterSection(a, At(sections, cur + 1), FALSE)
                     ELSE a
                ELSE IF cur < Len(sections) - 1
                THEN EnterSection(a, At(sections, cur + 1), FALSE)
                ELSE a
          [] k.Type = "KeyLeft" /\ a.auraSection \in 0..3 ->
                [a EXCEPT !.focusIdx =
                    (@ + SectionLen(a.auraSection) - 1) % SectionLen(a.auraSection)]
          [] k.Type = "KeyRight" /\ a.auraSection \in 0..3 ->
                [a EXCEPT !.focusIdx = (@ + 1) % SectionLen(a.auraSection)]
          [] k.Type = "KeyEnter" ->
                LET a1 == CASE a.auraSection = 0 ->
                                  auraClampSection([a EXCEPT !.auraMode = a.focusIdx])
                            [] a.auraSection = 1 -> [a EXCEPT !.auraColour1 = a.focusIdx]
                            [] a.auraSection = 2 -> [a EXCEPT !.auraColour2 = a.focusIdx]
                            [] a.auraSection = 3 -> [a EXCEPT !.auraSpeed = a.focusIdx]
                            [] OTHER -> a
                IN  addLog(SetStatus(a1, ok),
                           ConsoleLine("aura effect " \o At(auraModes, a1.auraMode), <<>>, ok))
          [] OTHER -> a

\* app.go 954, 958: one step of the slider
ChargeStep == 5
chargeStep_Unclamped(limit, d) == limit + d
chargeStep(limit, d) == clamp(limit + d, ChargeMin, ChargeMax)

\* app.go 946-979
handleBattery(a, k, ok) ==
    CASE k.Type = "KeyUp" -> [a EXCEPT !.focusIdx = 0]
      [] k.Type = "KeyDown" -> [a EXCEPT !.focusIdx = 1]
      [] k.Type = "KeyLeft" /\ a.focusIdx = 0 ->
            [a EXCEPT !.chargeLimit = chargeStep(@, 0 - ChargeStep)]
      [] k.Type = "KeyRight" /\ a.focusIdx = 0 ->
            [a EXCEPT !.chargeLimit = chargeStep(@, ChargeStep)]
      [] k.Type = "KeyEnter" ->
            IF a.focusIdx = 0
            THEN addLog(SetStatus(a, ok),
                        ConsoleLine("--chg-limit " \o ToString(a.chargeLimit), <<>>, ok))
            ELSE addLog(SetStatus(a, ok), ConsoleLine("--one-shot-chg", <<>>, ok))
      [] OTHER -> a

\* app.go 1154-1165: the flag is inverted before the command runs and stays
\* so whatever the command answers
FanToggled(flag, ok) == ~flag

\* app.go 1113-1168
handleFans(a, k, ok) ==
    LET fan == a.selectedFan + 1
        pt == a.focusIdx + 1
        preset(p) == SetStatus([a EXCEPT !.fanSpeeds[fan] = p], TRUE)
    IN  CASE k.Type = "KeyUp" ->
                [a EXCEPT !.fanSpeeds[fan][pt] = clamp(@ + 5, 0, 100)]
          [] k.Type = "KeyDown" ->
                [a EXCEPT !.fanSpeeds[fan][pt] = clamp(@ - 5, 0, 100)]
          [] k.Type = "KeyLeft" -> [a EXCEPT !.focusIdx = (@ + 7) % 8]
          [] k.Type = "KeyRight" -> [a EXCEPT !.focusIdx = (@ + 1) % 8]
          [] k.Type = "KeyTab" -> [a EXCEPT !.selectedFan = (@ + 1) % 2]
          [] k.Type = "KeyEnter" ->
                addLog(SetStatus(a, ok),
                       ConsoleLine("fan-curve --fan " \o (IF a.selectedFan = 1 THEN "gpu" ELSE "cpu"),
                                   <<>>, ok))
          [] k.Type = "KeyChar" /\ k.Char = 115 -> preset(fanPresets.silent)
          [] k.Type = "KeyChar" /\ k.Char = 98 -> preset(fanPresets.balanced)
          [] k.Type = "KeyChar" /\ k.Char = 112 -> preset(fanPresets.performance)
          [] k.Type = "KeyChar" /\ k.Char = 102 -> preset(fanPresets.full)
          [] k.Type = "KeyChar" /\ k.Char = 101 ->
                SetStatus([a EXCEPT !.fanEnabled = FanToggled(@, ok)], ok)
          [] OTHER -> a

\* app.go 1213-1224, 1227-1238: the flag is inverted, and inverted back
\* when the command fails
BiosToggled(flag, ok) == IF ok THEN ~flag ELSE ~(~flag)

\* app.go 1206-1242: the log line is written after the flag is settled
handleBios(a, k, ok) ==
    CASE k.Type = "KeyUp" -> [a EXCEPT !.focusIdx = 0]
      [] k.Type = "KeyDown" -> [a EXCEPT !.focusIdx = 1]
      [] k.Type = "KeyEnter" ->
            IF a.focusIdx = 0
            THEN addLog(SetStatus([a EXCEPT !.panelOverdrive = BiosToggled(@, ok)], ok),
                        ConsoleLine("armoury set panel_od", <<>>, ok))
            ELSE addLog(SetStatus([a EXCEPT !.gpuMuxDedicated = BiosToggled(@, ok)], ok),
                        ConsoleLine("armoury set gpu_mux_mode", <<>>, ok))
      [] OTHER -> a

\* app.go 1335-1363
handleConsole(a, k, ok) ==
    CASE k.Type = "KeyChar" /\ k.Char >= 32 /\ k.Char < 127 ->
            [a EXCEPT !.consoleInput = Append(@, k.Char)]
      [] k.Type = "KeyBackspace" /\ Len(a.consoleInput) > 0 ->
            [a EXCEPT !.consoleInput = SubSeq(@, 1, Len(@) - 1)]
      [] k.Type = "KeyEnter" /\ a.consoleInput # <<>> ->
            [SetStatus(addLog([a EXCEPT !.consoleInput = <<>>],
                              ConsoleLine("raw", a.consoleInput, ok)), ok)
                EXCEPT !.consoleScroll = 0]
      [] k.Type = "KeyPgUp" ->
            [a EXCEPT !.consoleScroll = min(@ + 3, max(0, Len(a.consoleLog) - 5))]
      [] k.Type = "KeyPgDn" ->
            [a EXCEPT !.consoleScroll = max(@ - 3, 0)]
      [] OTHER -> a

\* app.go 1376: 'q' quits, but not on the Console tab
QuitKey_Anywhere(a, k) == k.Type = "KeyChar" /\ k.Char = 113
QuitKey(a, k) == k.Type = "KeyChar" /\ k.Char = 113 /\ a.activeTab # TabConsole

\* app.go 1381-1382: the digits switch tabs, on the Console tab only while
\* the input line is empty
TabKey_Always(a, k) == k.Type = "KeyChar" /\ k.Char >= 49 /\ k.Char <= 55
TabKey(a, k) ==
    /\ k.Type = "KeyChar"
    /\ a.activeTab # TabConsole \/ a.consoleInput = <<>>
    /\ k.Char >= 49 /\ k.Char <= 55

\* app.go 1383-1388
SwitchTab_KeepFocus(a, newTab) == [a EXCEPT !.activeTab = newTab]
SwitchTab(a, newTab) ==
    IF newTab # a.activeTab
    THEN [a EXCEPT !.activeTab = newTab, !.focusIdx = 0, !.auraSection = 0]
    ELSE a

\* app.go 1394-1410
handleTab(a, k, ok, W) ==
    CASE a.activeTab = TabProfile -> handleProfile(a, k, ok)
      [] a.activeTab = TabKeyboard -> handleKeyboard(a, k, ok)
      [] a.activeTab = TabAura -> handleAura(a, k, ok, W)
      [] a.activeTab = TabBattery -> handleBattery(a, k, ok)
      [] a.activeTab = TabFans -> handleFans(a, k, ok)
      [] a.activeTab = TabBios -> handleBios(a, k, ok)
      [] a.activeTab = TabConsole -> handleConsole(a, k, ok)
      [] OTHER -> a

\* app.go 1369-1411
HandleKey(a, k, ok, W) ==
    IF k.Type \in {"KeyCtrlC", "KeyCtrlQ"}
    THEN [a EXCEPT !.running = FALSE]
    ELSE IF QuitKey(a, k)
    THEN [a EXCEPT !.running = FALSE]
    ELSE IF TabKey(a, k)
    THEN SwitchTab(a, k.Char - 49)
    ELSE handleTab(a, k, ok, W)

\* backend.go 132-135 (the full file): SetChargeLimit clamps what it passes on
SetChargeLimit(pct) == [pct |-> pct, arg |-> clamp(pct, ChargeMin, ChargeMax)]

\* The backend command a HandleKey call runs, <<>> when it runs none
\* (app.go 460, 536, 855, 962, 970, 1132, 1156, 1215, 1229, 1345)
Issued(a, k) ==
    IF k.Type \in {"KeyCtrlC", "KeyCtrlQ"} \/ QuitKey(a, k) \/ TabKey(a, k) THEN <<>>
    ELSE IF k.Type = "KeyEnter"
    THEN CASE a.activeTab = TabProfile ->
                  [fn |-> "SetProfile", out |-> At(profiles, a.focusIdx)]
           [] a.activeTab = TabKeyboard ->
                  [fn |-> "SetKbdBrightness", out |-> At(kbdValues, a.focusIdx)]
           [] a.activeTab = TabAura ->
                  [fn |-> "SetAuraMode",
                   out |-> At(auraModes, IF a.auraSection = 0 THEN a.focusIdx
                                         ELSE a.auraMode)]
           [] a.activeTab = TabBattery /\ a.focusIdx = 0 ->
                  [fn |-> "SetChargeLimit", out |-> SetChargeLimit(a.chargeLimit)]
           [] a.activeTab = TabBattery /\ a.focusIdx # 0 ->
                  [fn |-> "ToggleOneShotCharge", out |-> <<>>]
           [] a.activeTab = TabFans ->
                  [fn |-> "SetFanCurve", out |-> At(a.fanSpeeds, a.selectedFan)]
           [] a.activeTab = TabBios /\ a.focusIdx = 0 ->
                  [fn |-> "SetPanelOverdrive", out |-> ~a.panelOverdrive]
           [] a.activeTab = TabBios /\ a.focusIdx # 0 ->
                  [fn |-> "SetGpuMux", out |-> ~a.gpuMuxDedicated]
           [] a.activeTab = TabConsole /\ a.consoleInput # <<>> ->
                  [fn |-> "RunRaw", out |-> a.consoleInput]
           [] OTHER -> <<>>
    ELSE IF a.activeTab = TabFans /\ k.Type = "KeyChar" /\ k.Char = 101
    THEN [fn |-> "EnableFanCurves", out |-> ~a.fanEnabled]
    ELSE <<>>

\* ------------------------------------------------------------------------
\* main (main.go 10-66): the main goroutine
\* ------------------------------------------------------------------------
\* main.go 15-16
Diagnostic == <<"Failed to enter raw mode", "Make sure you're running this in a terminal.">>

\* exit status of a process ended by a signal it does not handle
KilledBySignal == -1

\* flushes started so far
Frames == Count(out, FlushHead)

\* main.go 14
MainEnterRaw ==
    /\ proc = "running"
    /\ pc["main"] = "m_enter"
    /\ EnterRawBody
    /\ pc' = [pc EXCEPT !["main"] = IF EnterRawErr THEN "m_fatal" ELSE "m_setup"]
    /\ UNCHANGED <<moreVars, auxVars, envVars, buf, mu, errOut, ret, sigVars, endVars, app,
                   inVars, applies>>

\* main.go 15-17
MainFatal ==
    /\ proc = "running"
    /\ pc["main"] = "m_fatal"
    /\ errOut' = errOut \o Diagnostic
    /\ proc' = "exited"
    /\ exitCode' = 1
    /\ exitVia' = "fatal"
    /\ UNCHANGED <<moreVars, auxVars, envVars, ttyVars, buf, mu, out, ctlVars, sigVars, app,
                   inVars, histVars>>

\* main.go 21-30: the deferred ExitRaw is registered, the handlers are
\* installed and the signal goroutine starts waiting
MainSetup ==
    /\ proc = "running"
    /\ pc["main"] = "m_setup"
    /\ handlers' = TRUE
    /\ pc' = [pc EXCEPT !["main"] = "m_init", !["sig"] = "s_wait"]
    /\ UNCHANGED <<moreVars, auxVars, envVars, ttyVars, ioVars, ret, sigCh, winchCh, endVars,
                   app, inVars, histVars>>

\* main.go 33-37
MainAppInit ==
    /\ proc = "running"
    /\ pc["main"] = "m_init"
    /\ app' = AppInit(NewApp, given.backend)
    /\ pc' = [pc EXCEPT !["main"] = "m_render"]
    /\ UNCHANGED <<moreVars, auxVars, envVars, ttyVars, ioVars, ret, sigVars, endVars, inVars,
                   histVars>>

\* app.go 316, 1016-1017: the height of the content area and of the fan
\* curve graph, and the width of the graph
ContentH(h) == h - 5
GraphH(h) == min(ContentH(h) - 12, 12)
GraphW(w) == min(w - 14, 56)

\* app.go 1021-1033: renderFans divides by graphH in its first loop, which
\* runs when graphH >= 0, and by graphW - 1 inside its second; an integer
\* division by zero is a run-time panic.  No other statement of Render or
\* of the tab pages divides by, or slices or indexes with, a value that
\* depends on the dimensions in a way that can fail at width >= 40.
RenderAborts(a, w, h) ==
    /\ a.activeTab = TabFans
    /\ \/ GraphH(h) = 0
       \/ GraphH(h) > 0 /\ GraphW(w) = 1

\* app.go 241-367: Render queries the size, clears the frame buffer, fills
\* it and calls Flush; every Render call of main is followed by the loop
\* condition
Render ==
    /\ proc = "running"
    /\ pc["main"] = "m_render"
    /\ Frames < given.frames
    /\ ~RenderAborts(app, updateSize(wsz).width, updateSize(wsz).height)
    /\ width' = updateSize(wsz).width
    /\ height' = updateSize(wsz).height
    /\ buf' = <<FrameText>>
    /\ drawn' = <<<<FrameText>>>>
    /\ pass' = Append(pass, "render")
    /\ pc' = [pc EXCEPT !["main"] = "fl_head"]
    /\ ret' = [ret EXCEPT !["main"] = "m_loop"]
    /\ UNCHANGED <<hup, events, sink, sent, wsz, call, given, run, keys, envVars, ttyVars,
                   mu, out, errOut, sigVars, endVars, app, inVars, histVars>>

\* stands for the draw calls of App.Render up to line 1022
PartialFrame == "FRAME-HEAD"

\* app.go 241-249, 1022: Render panics in renderFans; the frame buffer holds
\* what was drawn so far, nothing is flushed, and the panic runs main's
\* deferred ExitRaw (main.go 21)
RenderPanic ==
    /\ proc = "running"
    /\ pc["main"] = "m_render"
    /\ RenderAborts(app, updateSize(wsz).width, updateSize(wsz).height)
    /\ width' = updateSize(wsz).width
    /\ height' = updateSize(wsz).height
    /\ buf' = <<PartialFrame>>
    /\ drawn' = <<<<PartialFrame>>>>
    /\ pass' = Append(pass, "panic")
    /\ pc' = [pc EXCEPT !["main"] = "ex_check"]
    /\ ret' = [ret EXCEPT !["main"] = "m_panic"]
    /\ UNCHANGED <<hup, events, sink, sent, wsz, call, given, run, keys, envVars, ttyVars,
                   mu, out, errOut, sigVars, endVars, app, inVars, histVars>>

\* the message and the exit status of a Go program that ends in a panic
PanicText == "panic: runtime error: integer divide by zero"
PanicStatus == 2

\* after the deferred call the run-time reports the panic and the process
\* ends
MainPanic ==
    /\ proc = "running"
    /\ pc["main"] = "m_panic"
    /\ errOut' = Append(errOut, PanicText)
    /\ proc' = "exited"
    /\ exitCode' = PanicStatus
    /\ exitVia' = "panic"
    /\ UNCHANGED <<moreVars, auxVars, envVars, ttyVars, buf, mu, out, ctlVars,
                   sigVars, app, inVars, histVars>>

\* terminal.go 157-160
FlushHeadWrite ==
    /\ proc = "running"
    /\ pc["main"] = "fl_head"
    /\ mu = ""
    /\ mu' = "main"
    /\ out' = Emit(<<FlushHead>>)
    /\ sent' = Append(sent, Flatten(drawn))
    /\ pc' = [pc EXCEPT !["main"] = "fl_body"]
    /\ UNCHANGED <<hup, events, sink, drawn, wsz, width, height, auxVars, envVars, ttyVars, buf, errOut, ret, sigVars, endVars, app,
                   inVars, histVars>>

\* terminal.go 161
FlushBodyWrite ==
    /\ proc = "running"
    /\ pc["main"] = "fl_body"
    /\ out' = Emit(FrameWrites(buf))
    /\ pc' = [pc EXCEPT !["main"] = "fl_tail"]
    /\ UNCHANGED <<moreVars, auxVars, envVars, ttyVars, buf, mu, errOut, ret, sigVars, endVars,
                   app, inVars, histVars>>

\* terminal.go 162, 158: the last write, then the deferred Unlock
FlushTailWrite ==
    /\ proc = "running"
    /\ pc["main"] = "fl_tail"
    /\ out' = Emit(<<FlushTail>>)
    /\ mu' = ""
    /\ pass' = Append(pass, "flush")
    /\ pc' = [pc EXCEPT !["main"] = ret["main"]]
    /\ UNCHANGED <<moreVars, call, given, run, keys, envVars, ttyVars, buf, errOut, ret,
                   sigVars, endVars, app, inVars, histVars>>

\* main.go 45-46: the select takes the case of winchCh when a notification
\* is buffered, and its default case otherwise
ResizePending_Never(n) == FALSE
ResizePending(n) == n > 0

\* main.go 55-58: where main goes on an idle event of the App a
IdleNext_StatusOnly(a) == IF a.statusMsg # "" THEN "m_render" ELSE "m_loop"
IdleNext(a) == "m_render"

\* main.go 43-54: the loop condition, the non-blocking resize check and the
\* start of ReadKey; main.go 66, 21: leaving the loop runs the deferred call
MainLoop ==
    /\ proc = "running"
    /\ pc["main"] = "m_loop"
    /\ IF ~app.running
       THEN /\ pc' = [pc EXCEPT !["main"] = "ex_check"]
            /\ ret' = [ret EXCEPT !["main"] = "m_return"]
            /\ pass' = <<"exit">>
            /\ UNCHANGED <<winchCh, rbuf, taken, used, reads, width, height>>
       ELSE IF ResizePending(winchCh)
       THEN /\ winchCh' = 0
            /\ width' = updateSize(wsz).width
            /\ height' = updateSize(wsz).height
            /\ pc' = [pc EXCEPT !["main"] = "m_render"]
            /\ pass' = <<"resize">>
            /\ UNCHANGED <<ret, rbuf, taken, used, reads>>
       ELSE /\ rbuf' = <<>>
            /\ taken' = 0
            /\ used' = <<>>
            /\ reads' = 0
            /\ pc' = [pc EXCEPT !["main"] = "rk_b1"]
            /\ pass' = <<"read">>
            /\ UNCHANGED <<ret, winchCh, width, height>>
    /\ UNCHANGED <<hup, events, sink, drawn, sent, wsz, call, given, run, keys, envVars,
                   ttyVars, ioVars, sigCh, handlers, endVars, app, wire, stdin,
                   key, histVars>>

\* main.go 55-64
MainDispatch ==
    /\ proc = "running"
    /\ pc["main"] = "rk_ret"
    /\ IF IsIdle(key)
       THEN /\ app' = app
            /\ events' = events
            /\ pass' = Append(pass, "idle")
            /\ pc' = [pc EXCEPT !["main"] = IdleNext(app)]
       ELSE /\ \E ok \in BOOLEAN : app' = HandleKey(app, key, ok, width)
            /\ events' = Append(events, key)
            /\ pass' = Append(pass, "key")
            /\ pc' = [pc EXCEPT !["main"] =
                         IF app'.running THEN "m_render" ELSE "m_loop"]
    /\ UNCHANGED <<hup, sink, drawn, sent, wsz, width, height, call, given, run, keys,
                   envVars, ttyVars, ioVars, ret, sigVars, endVars, inVars,
                   histVars>>

\* main.go 66: main returns after its deferred call and the process ends
MainReturn ==
    /\ proc = "running"
    /\ pc["main"] = "m_return"
    /\ proc' = "exited"
    /\ exitCode' = 0
    /\ exitVia' = "return"
    /\ UNCHANGED <<moreVars, auxVars, envVars, ttyVars, ioVars, ctlVars, sigVars, app, inVars,
                   histVars>>

\* ------------------------------------------------------------------------
\* main.go 24-30: the signal goroutine, and the signals
\* ------------------------------------------------------------------------
\* SIGINT or SIGTERM with the handlers installed: the signal is buffered in
\* sigCh, or dropped when the buffer is full
SignalArrive ==
    /\ proc = "running"
    /\ handlers
    /\ sigCh = 0
    /\ sigCh' = 1
    /\ UNCHANGED <<moreVars, auxVars, envVars, ttyVars, ioVars, ctlVars, winchCh, handlers,
                   endVars, app, inVars, histVars>>

\* SIGINT or SIGTERM before main.go 25: the default disposition ends the
\* process at once
SignalDefault ==
    /\ proc = "running"
    /\ ~handlers
    /\ proc' = "exited"
    /\ exitCode' = KilledBySignal
    /\ exitVia' = "killed"
    /\ UNCHANGED <<moreVars, auxVars, envVars, ttyVars, ioVars, ctlVars, sigVars, app, inVars,
                   histVars>>

\* main.go 32-34: the window changes size once Notify has run; SIGWINCH is
\* buffered in winchCh, whose capacity is WinchCap, or dropped when the
\* buffer is full
WinchCap == 1
WinchArrive_Queued ==
    /\ proc = "running"
    /\ pc["main"] \notin {"m_enter", "m_fatal", "m_setup", "m_init"}
    /\ winchCh' = winchCh + 1
    /\ winchCh' <= WinchCap + 1
    /\ wsz' \in MainWinSizes \ {wsz}
    /\ UNCHANGED <<hup, events, sink, drawn, sent, width, height, auxVars, envVars, ttyVars,
                   ioVars, ctlVars, sigCh, handlers, endVars, app, inVars,
                   histVars>>
WinchArrive ==
    /\ proc = "running"
    /\ pc["main"] \notin {"m_enter", "m_fatal", "m_setup", "m_init"}
    /\ winchCh' = min(winchCh + 1, WinchCap)
    /\ wsz' \in MainWinSizes \ {wsz}
    /\ UNCHANGED <<hup, events, sink, drawn, sent, width, height, auxVars, envVars, ttyVars,
                   ioVars, ctlVars, sigCh, handlers, endVars, app, inVars,
                   histVars>>

\* main.go 27-28
SigReceive ==
    /\ proc = "running"
    /\ pc["sig"] = "s_wait"
    /\ sigCh > 0
    /\ sigCh' = 0
    /\ pc' = [pc EXCEPT !["sig"] = "ex_check"]
    /\ ret' = [ret EXCEPT !["sig"] = "s_osexit"]
    /\ UNCHANGED <<moreVars, auxVars, envVars, ttyVars, ioVars, winchCh, handlers, endVars, app,
                   inVars, histVars>>

SigExitState_Continues == "running"

\* main.go 29: os.Exit ends the process
SigExitState == "exited"

\* main.go 29
SigOsExit ==
    /\ proc = "running"
    /\ pc["sig"] = "s_osexit"
    /\ proc' = SigExitState
    /\ exitCode' = 0
    /\ exitVia' = "signal"
    /\ pc' = [pc EXCEPT !["sig"] = "s_done"]
    /\ UNCHANGED <<moreVars, auxVars, envVars, ttyVars, ioVars, ret, sigVars, app, inVars,
                   histVars>>

SigStep == SigReceive \/ ExitRawStep("sig") \/ SigOsExit

\* ------------------------------------------------------------------------
\* The program
\* ------------------------------------------------------------------------
\* byte sequences typed during one run of the program
MainInputs == {<<17>>, <<55, 113>>, <<27, 91, 51, 126>>, <<27, 91, 65, 3>>}

\* the arguments of the helper calls when a run is not about them: a bar of
\* 20 cells at one half, the slider at the default charge limit on a terminal
\* of 100 columns, a string of 12 runes padded to 6; and the frame bound
Word(n) == [i \in 1..n |-> 96 + i]
\* backend.go 119 (the full file): the fields of "Current battery charge
\* limit: 70%"
ChargeInfo(pct) ==
    <<<<67, 117, 114, 114, 101, 110, 116>>,
      <<98, 97, 116, 116, 101, 114, 121>>,
      <<99, 104, 97, 114, 103, 101>>,
      <<108, 105, 109, 105, 116, 58>>,
      pct>>

\* what an installed asusctl answers App.Init on a machine without an Aura
\* configuration file
DefaultBackend ==
    [installed |-> TRUE, profile |-> "Balanced", kbd |-> "med",
     chargeOk |-> TRUE, chargeOut |-> ChargeInfo(<<55, 48, 37>>), aura |-> <<>>]

DefaultGiven ==
    [w |-> 20, num |-> 32, den |-> 64, chargeLimit |-> 80, W |-> 100,
     s |-> Word(12), pw |-> 6, frames |-> MaxFrames, backend |-> DefaultBackend]

\* no Backend.run call has been made
NoRun == <<>>

InitCommon ==
    /\ pass = <<>>
    /\ call = <<>>
    /\ run = NoRun
    /\ keys = 0
    /\ given = DefaultGiven
    /\ termios0 \in InitialTermios
    /\ termios = termios0
    /\ origTermios = ZeroTermios
    /\ inRaw = FALSE
    /\ buf = <<>>
    /\ mu = ""
    /\ out = <<>>
    /\ errOut = <<>>
    /\ ret = [t \in Threads |-> "none"]
    /\ sigCh = 0
    /\ winchCh = 0
    /\ handlers = FALSE
    /\ proc = "running"
    /\ exitCode = 0
    /\ exitVia = "none"
    /\ app = NoApp
    /\ stdin = <<>>
    /\ rbuf = <<>>
    /\ key = NoKey
    /\ taken = 0
    /\ used = <<>>
    /\ reads = 0
    /\ hup = FALSE
    /\ events = <<>>
    /\ sink = "ok"
    /\ drawn = <<>>
    /\ sent = <<>>
    /\ applies = 0
    /\ ops = <<>>
    /\ snap = termios0

\* terminal.go 38-42: NewTerminal queries the size once
Constructed == width = updateSize(wsz).width /\ height = updateSize(wsz).height

\* main.go 10-12: the process starts in main with a fresh Terminal
Init ==
    /\ InitCommon
    /\ wsz = StartSize
    /\ Constructed
    /\ tty \in TtyKinds
    /\ wire \in MainInputs
    /\ typed = wire
    /\ termios0 = CookedTermios
    /\ pc = [t \in Threads |-> IF t = "main" THEN "m_enter" ELSE "s_none"]

Next ==
    \/ MainEnterRaw
    \/ MainFatal
    \/ MainSetup
    \/ MainAppInit
    \/ Render
    \/ FlushHeadWrite
    \/ FlushBodyWrite
    \/ FlushTailWrite
    \/ MainLoop
    \/ ReadKeyStep
    \/ MainDispatch
    \/ ExitRawStep("main")
    \/ MainReturn
    \/ SigStep
    \/ SignalArrive
    \/ SignalDefault
    \/ WinchArrive
    \/ Arrive

Spec == Init /\ [][Next]_vars

\* the Go scheduler runs a runnable goroutine: the signal goroutine takes
\* its steps whatever the main goroutine does
\* typed during a run in which a signal may arrive: Ctrl-Q, which stops the
\* loop, or the Delete key, which never does
LiveInputs == {<<17>>, <<27, 91, 51, 126>>}

LiveInit == Init /\ wire \in LiveInputs

LiveSpec == LiveInit /\ [][Next]_vars /\ WF_vars(SigStep)

\* ------------------------------------------------------------------------
\* One goroutine calling EnterRaw and ExitRaw in any order
\* ------------------------------------------------------------------------
ApiEnterRaw ==
    /\ pc["main"] = "api_idle"
    /\ Len(ops) < MaxCalls
    /\ EnterRawBody
    /\ UNCHANGED <<moreVars, auxVars, envVars, buf, mu, errOut, ctlVars, sigVars, endVars, app,
                   inVars, applies>>

ApiExitRaw ==
    /\ pc["main"] = "api_idle"
    /\ Len(ops) < MaxCalls
    /\ pc' = [pc EXCEPT !["main"] = "ex_check"]
    /\ ret' = [ret EXCEPT !["main"] = "api_idle"]
    /\ UNCHANGED <<moreVars, auxVars, envVars, ttyVars, ioVars, sigVars, endVars, app, inVars,
                   histVars>>

ApiInit ==
    /\ InitCommon
    /\ wsz = WinSize(DefaultWidth, DefaultHeight)
    /\ Constructed
    /\ tty \in TtyKinds
    /\ wire = <<>>
    /\ typed = wire
    /\ pc = [t \in Threads |-> IF t = "main" THEN "api_idle" ELSE "s_none"]

ApiNext == ApiEnterRaw \/ ApiExitRaw \/ ExitRawStep("main")

ApiSpec == ApiInit /\ [][ApiNext]_vars

\* ------------------------------------------------------------------------
\* One goroutine calling ReadKey repeatedly, the terminal in raw mode
\* ------------------------------------------------------------------------
DecBytes == {0, 3, ESC, LBracket, 65, 51, Tilde, 113}

Bytes == 0..255

\* every byte value in each of the four positions the decoder looks at
EachPosition ==
    {<<b>> : b \in Bytes}
    \cup {<<ESC, b>> : b \in Bytes}
    \cup {<<ESC, LBracket, b>> : b \in Bytes}
    \cup {<<ESC, LBracket, d, b>> : d \in {51, 53, 54}, b \in Bytes}

\* an arrow key or a Delete key with another key typed right after it
TwoKeys ==
    {<<ESC, LBracket, 65, b>> : b \in DecBytes}
    \cup {<<ESC, LBracket, 51, Tilde, b>> : b \in DecBytes}

\* every sequence over DecBytes up to the bound, EachPosition and TwoKeys
DecInputs ==
    UNION {[1..n -> DecBytes] : n \in 0..MaxDecLen} \cup EachPosition \cup TwoKeys

DecLiveInputs == UNION {[1..n -> DecBytes] : n \in 0..MaxLiveLen} \cup EachPosition

\* terminal.go 196: each call starts with a new reader
DecCall ==
    /\ pc["main"] \in {"dec_idle", "rk_ret"}
    /\ rbuf' = <<>>
    /\ taken' = 0
    /\ used' = <<>>
    /\ reads' = 0
    /\ pc' = [pc EXCEPT !["main"] = "rk_b1"]
    /\ UNCHANGED <<moreVars, auxVars, envVars, ttyVars, ioVars, ret, sigVars, endVars, app, wire,
                   stdin, key, histVars>>

\* the terminal in raw mode after a successful EnterRaw, nothing typed yet
RawStart ==
    /\ pass = <<>>
    /\ call = <<>>
    /\ run = NoRun
    /\ keys = 0
    /\ tty = "ok"
    /\ termios0 = CookedTermios
    /\ termios = MakeRaw(termios0)
    /\ origTermios = termios0
    /\ inRaw = TRUE
    /\ buf = <<>>
    /\ mu = ""
    /\ out = <<EnterSeq>>
    /\ errOut = <<>>
    /\ sigCh = 0
    /\ winchCh = 0
    /\ handlers = TRUE
    /\ proc = "running"
    /\ exitCode = 0
    /\ exitVia = "none"
    /\ app = AppInit(NewApp, given.backend)
    /\ stdin = <<>>
    /\ rbuf = <<>>
    /\ key = NoKey
    /\ taken = 0
    /\ used = <<>>
    /\ reads = 0
    /\ hup = FALSE
    /\ events = <<>>
    /\ sink = "ok"
    /\ drawn = <<>>
    /\ sent = <<>>
    /\ wsz = WinSize(DefaultWidth, DefaultHeight)
    /\ Constructed
    /\ applies = 0
    /\ ops = <<"acquire_ok">>
    /\ snap = termios0

\* the input stream closes or starts failing: nothing more arrives, and
\* what was queued is either still readable or lost
Hangup ==
    /\ proc = "running"
    /\ ~hup
    /\ hup' = TRUE
    /\ wire' = <<>>
    /\ stdin' \in {stdin, <<>>}
    /\ UNCHANGED <<events, sink, drawn, sent, wsz, width, height, auxVars, envVars,
                   ttyVars, ioVars, ctlVars, sigVars, endVars, app, rbuf, key,
                   taken, used, reads, histVars>>

\* the main goroutine is about to call ReadKey
DecStart == given = DefaultGiven /\ RawStart

DecIdle ==
    /\ pc = [t \in Threads |-> IF t = "main" THEN "dec_idle" ELSE "s_wait"]
    /\ ret = [t \in Threads |-> "none"]

DecInit == DecStart /\ DecIdle /\ wire \in DecInputs /\ typed = wire

DecNext == DecCall \/ ReadKeyStep \/ Arrive \/ Hangup

DecSpec == DecInit /\ [][DecNext]_vars

DecLiveInit == DecStart /\ DecIdle /\ wire \in DecLiveInputs /\ typed = wire

\* ReadKey runs on the calling goroutine, which the scheduler keeps running
DecLiveSpec == DecLiveInit /\ [][DecNext]_vars /\ WF_vars(ReadKeyStep)

\* ------------------------------------------------------------------------
\* One goroutine issuing draw calls and Flush (terminal.go 116-163), the
\* terminal in raw mode; a draw call appends its output to the frame
\* buffer, drawn records the output of each call since the last Clear
\* ------------------------------------------------------------------------
Coords == {<<3, 1>>}
Colors == {<<255, 128, 0>>}
Texts == {"ab"}

\* terminal.go 120-122
MoveTo_ColumnFirst(x, y) == "ESC[" \o ToString(x + 1) \o ";" \o ToString(y + 1) \o "H"
MoveTo(x, y) == "ESC[" \o ToString(y + 1) \o ";" \o ToString(x + 1) \o "H"

\* terminal.go 124-126
SetFg(r, g, b) ==
    "ESC[38;2;" \o ToString(r) \o ";" \o ToString(g) \o ";" \o ToString(b) \o "m"

\* terminal.go 128-130
SetBg(r, g, b) ==
    "ESC[48;2;" \o ToString(r) \o ";" \o ToString(g) \o ";" \o ToString(b) \o "m"

\* terminal.go 132-150
ResetStyle == "ESC[0m"
Bold == "ESC[1m"
Dim == "ESC[2m"
Underline == "ESC[4m"
Reverse == "ESC[7m"

\* terminal.go 152-154
Write(s) == s

CompIdle == proc = "running" /\ pc["main"] = "comp_idle"

\* a draw call whose output is o; cl is the record of the last helper call
\* after it
DrawAs_Overwrite(o, cl) ==
    /\ CompIdle
    /\ Len(drawn) + Len(Flatten(sent)) < MaxDraws
    /\ buf' = <<o>>
    /\ drawn' = Append(drawn, <<o>>)
    /\ call' = cl
    /\ UNCHANGED <<hup, events, sink, sent, wsz, width, height, pass, given, run, keys,
                   envVars, ttyVars, mu, out, errOut, ctlVars, sigVars,
                   endVars, app, inVars, histVars>>
DrawAs(o, cl) ==
    /\ CompIdle
    /\ Len(drawn) + Len(Flatten(sent)) < MaxDraws
    /\ buf' = Append(buf, o)
    /\ drawn' = Append(drawn, <<o>>)
    /\ call' = cl
    /\ UNCHANGED <<hup, events, sink, sent, wsz, width, height, pass, given, run, keys,
                   envVars, ttyVars, mu, out, errOut, ctlVars, sigVars,
                   endVars, app, inVars, histVars>>

Draw(o) == DrawAs(o, call)

\* terminal.go 116-118
Clear ==
    /\ CompIdle
    /\ buf' = <<>>
    /\ drawn' = <<>>
    /\ UNCHANGED <<hup, events, sink, sent, wsz, width, height, auxVars, envVars, ttyVars,
                   mu, out, errOut, ctlVars, sigVars, endVars, app, inVars,
                   histVars>>

CallMoveTo == \E c \in Coords : Draw(MoveTo(c[1], c[2]))
CallSetFg == \E c \in Colors : Draw(SetFg(c[1], c[2], c[3]))
CallSetBg == \E c \in Colors : Draw(SetBg(c[1], c[2], c[3]))
CallResetStyle == Draw(ResetStyle)
CallBold == Draw(Bold)
CallDim == Draw(Dim)
CallUnderline == Draw(Underline)
CallReverse == Draw(Reverse)
CallWrite == \E t \in Texts : Draw(Write(t))

\* terminal.go 156: a call of Flush; its three writes are FlushHeadWrite,
\* FlushBodyWrite and FlushTailWrite
CallFlush ==
    /\ CompIdle
    /\ Len(sent) < MaxFrames
    /\ pc' = [pc EXCEPT !["main"] = "fl_head"]
    /\ UNCHANGED <<moreVars, auxVars, envVars, ttyVars, ioVars, ret, sigVars, endVars, app,
                   inVars, histVars>>

\* terminal.go 156-163: Flush has no result and drops the result of each
\* WriteString, so a failed write is not reported to the caller
FlushFailsOutward == FALSE

\* standard output stops accepting writes (the terminal or pipe behind it
\* has gone)
OutputBreaks ==
    /\ proc = "running"
    /\ sink = "ok"
    /\ sink' = "broken"
    /\ UNCHANGED <<hup, events, drawn, sent, wsz, width, height, auxVars, envVars, ttyVars,
                   ioVars, ctlVars, sigVars, endVars, app, inVars, histVars>>

CompInit ==
    /\ DecStart
    /\ wire = <<>>
    /\ typed = wire
    /\ pc = [t \in Threads |-> IF t = "main" THEN "comp_idle" ELSE "s_wait"]
    /\ ret = [t \in Threads |-> IF t = "main" THEN "comp_idle" ELSE "none"]

CompNext ==
    \/ Clear
    \/ CallMoveTo
    \/ CallSetFg
    \/ CallSetBg
    \/ CallResetStyle
    \/ CallBold
    \/ CallDim
    \/ CallUnderline
    \/ CallReverse
    \/ CallWrite
    \/ CallFlush
    \/ FlushHeadWrite
    \/ FlushBodyWrite
    \/ FlushTailWrite
    \/ OutputBreaks

CompSpec == CompInit /\ [][CompNext]_vars

\* ------------------------------------------------------------------------
\* The event loop of main (main.go 40-66) from the first Render on: raw mode
\* is entered, the handlers are installed, the App is new; keys are typed,
\* the window is resized, the input may close; no SIGINT or SIGTERM arrives,
\* so the signal goroutine stays in its receive
\* ------------------------------------------------------------------------
\* typed during one run: nothing, a zero byte, Enter, the key of the Fans
\* tab, q, x then Ctrl-C, Enter then q, Page Up
LoopInputs == {<<>>, <<0>>, <<13>>, <<53>>, <<113>>, <<120, 3>>, <<13, 113>>,
               <<27, 91, 53, 126>>}

LoopInit ==
    /\ given = [DefaultGiven EXCEPT !.frames = MaxLoopFrames]
    /\ RawStart
    /\ wire \in LoopInputs
    /\ typed = wire
    /\ pc = [t \in Threads |-> IF t = "main" THEN "m_render" ELSE "s_wait"]
    /\ ret = [t \in Threads |-> "none"]

LoopNext ==
    \/ Render
    \/ RenderPanic
    \/ MainPanic
    \/ FlushHeadWrite
    \/ FlushBodyWrite
    \/ FlushTailWrite
    \/ MainLoop
    \/ ReadKeyStep
    \/ MainDispatch
    \/ ExitRawStep("main")
    \/ MainReturn
    \/ WinchArrive
    \/ Arrive
    \/ Hangup

LoopSpec == LoopInit /\ [][LoopNext]_vars

\* ------------------------------------------------------------------------
\* One goroutine calling updateSize (terminal.go 44-58); wsz is what the
\* window-size query of the call finds
\* ------------------------------------------------------------------------
\* winsize.Col and winsize.Row are 16 bits wide
MaxDim == 65535

SizeCols == {0, 1, 20, 39, 40, 41, 79, 80, 100, 120, MaxDim}
SizeRows == {0, 1, 5, 9, 10, 11, 24, 30, 50, MaxDim}
SizeReports == {QueryFails} \cup {WinSize(c, r) : c \in SizeCols, r \in SizeRows}

CallUpdateSize ==
    /\ proc = "running"
    /\ pc["main"] = "size_idle"
    /\ \E w \in SizeReports :
          /\ wsz' = w
          /\ width' = updateSize(w).width
          /\ height' = updateSize(w).height
    /\ UNCHANGED <<hup, events, sink, drawn, sent, auxVars, envVars, ttyVars, ioVars,
                   ctlVars, sigVars, endVars, app, inVars, histVars>>

\* terminal.go 38-42: NewTerminal has made the first query
SizeInit ==
    /\ InitCommon
    /\ wsz = StartSize
    /\ Constructed
    /\ tty = "ok"
    /\ wire = <<>>
    /\ typed = wire
    /\ pc = [t \in Threads |-> IF t = "main" THEN "size_idle" ELSE "s_none"]

SizeNext == CallUpdateSize

SizeSpec == SizeInit /\ [][SizeNext]_vars

\* ------------------------------------------------------------------------
\* The drawing helpers of theme.go and the string helpers of terminal.go.
\* A colour is <<R, G, B>>.  The box-drawing and marker glyphs of the source
\* are written with one ASCII character each ("+", "-", "|", ">"); a glyph
\* is one character of the buffer either way.
\* ------------------------------------------------------------------------
MaxBarWidth == 20   \* cells of the widest bar drawn
MaxPadLen == 12     \* runes of the longest string given to pad
MaxPadWidth == 8    \* the widest target width given to pad

ColInput == <<38, 38, 44>>
ColBorder == <<50, 50, 58>>
ColAccent == <<229, 24, 45>>
ColTextDim == <<113, 113, 122>>
ColWhite == <<255, 255, 255>>

\* A string given to pad is the sequence of its runes (code points).  The
\* strings the program pads are mode names and typed bytes (app.go 593, 598,
\* 1270), whose runes take one cell each.
Space == 32
Ellipsis == 8230

\* terminal.go 262-272
pad_AlwaysEllipsis(s, w) ==
    IF Len(s) >= w
    THEN Append(SubSeq(s, 1, w - 1), Ellipsis)
    ELSE s \o [i \in 1..(w - Len(s)) |-> Space]
pad(s, w) ==
    IF Len(s) >= w
    THEN IF w > 3
         THEN Append(SubSeq(s, 1, w - 1), Ellipsis)
         ELSE SubSeq(s, 1, w)
    ELSE s \o [i \in 1..(w - Len(s)) |-> Space]

\* theme.go 30-31
Fg(c) == SetFg(c[1], c[2], c[3])
Bg(c) == SetBg(c[1], c[2], c[3])

\* theme.go 36-51
DrawBox(x, y, w, h, border) ==
    <<Fg(border), MoveTo(x, y), Write("+" \o rep("-", w - 2) \o "+")>>
    \o Flatten([i \in 1..(h - 2) |->
                   <<MoveTo(x, y + i), Write("|"),
                     MoveTo(x + w - 1, y + i), Write("|")>>])
    \o <<MoveTo(x, y + h - 1), Write("+" \o rep("-", w - 2) \o "+")>>

\* theme.go 54-61
FillRect(x, y, w, h, bg) ==
    <<Bg(bg)>>
    \o Flatten([i \in 1..h |-> <<MoveTo(x, y + i - 1), Write(rep(" ", w))>>])

\* theme.go 64-68
HLine(x, y, w, c) == <<Fg(c), MoveTo(x, y), Write(rep("-", w))>>

\* theme.go 71-76
Text(x, y, fg, s) == <<ResetStyle, Fg(fg), MoveTo(x, y), Write(s)>>

\* theme.go 79-85
TextBg(x, y, fg, bg, s) == <<ResetStyle, Fg(fg), Bg(bg), MoveTo(x, y), Write(s)>>

\* theme.go 88-94
TextBold(x, y, fg, s) == <<ResetStyle, Bold, Fg(fg), MoveTo(x, y), Write(s)>>

\* theme.go 100-101 with the fraction pct = num / den: the cells of the bar
\* in the fill colour.  The source multiplies in float64; the fractions the
\* model draws have a power of two as den, so that product is exact.
BarFilled_NoClamp(w, num, den) == Trunc(num * w, den)
BarFilled(w, num, den) == clamp(Trunc(num * w, den), 0, w)

\* theme.go 99-109
DrawBar(x, y, w, num, den, fg, bg) ==
    <<MoveTo(x, y), Bg(fg), Write(rep(" ", BarFilled(w, num, den))), Bg(bg),
      Write(rep(" ", w - BarFilled(w, num, den))), ResetStyle>>

\* app.go 888-889, 895: the filled cells of the charge-limit slider at
\* terminal width W.  float64(chargeLimit-20) / 80.0 * float64(barW)
\* truncates to this quotient for every chargeLimit in 20..100 and every
\* barW in 20..50 (the float64 results were compared over that whole range).
SliderWidth(W) == min(W - 20, 50)
SliderFilled(chargeLimit, W) == Trunc((chargeLimit - 20) * SliderWidth(W), 80)

\* app.go 891-900: the slider of renderBattery, drawn at column cx = 3
Slider(y, chargeLimit, W) ==
    <<MoveTo(3, y + 5), ResetStyle, Bg(ColAccent),
      Write(rep(" ", SliderFilled(chargeLimit, W))), Bg(ColInput),
      Write(rep(" ", SliderWidth(W) - SliderFilled(chargeLimit, W))),
      ResetStyle>>

\* theme.go 112-133
DrawButton(x, y, label, selected, accent) ==
    IF selected
    THEN <<ResetStyle, Bg(accent), Fg(ColWhite), Bold, MoveTo(x, y),
           Write(" " \o label \o " ")>>
    ELSE <<ResetStyle, Fg(ColBorder), MoveTo(x, y), Write("["),
           Fg(ColTextDim), Write(label), Fg(ColBorder), Write("]")>>

\* theme.go 136-150
DrawToggle(x, y, on) ==
    IF on
    THEN <<ResetStyle, Bg(ColAccent), Fg(ColWhite), MoveTo(x, y),
           Write(" o ON  "), ResetStyle>>
    ELSE <<ResetStyle, Bg(ColInput), Fg(ColTextDim), MoveTo(x, y),
           Write(" o OFF "), ResetStyle>>

HLineWidths == {7}
BoxSizes == {<<4, 3>>}

\* a composite draw call named fn, whose primitive calls append the strings os
DrawAll(fn, os) ==
    /\ CompIdle
    /\ Len(drawn) + Len(Flatten(sent)) < MaxDraws
    /\ buf' = buf \o os
    /\ drawn' = Append(drawn, os)
    /\ call' = [fn |-> fn, out |-> os]
    /\ UNCHANGED <<hup, events, sink, sent, wsz, width, height, pass, given, run, keys,
                   envVars, ttyVars, mu, out, errOut, ctlVars, sigVars,
                   endVars, app, inVars, histVars>>

CallFg == \E c \in Colors : DrawAll("Fg", <<Fg(c)>>)
CallBg == \E c \in Colors : DrawAll("Bg", <<Bg(c)>>)
CallDrawBox ==
    \E p \in Coords, s \in BoxSizes, c \in Colors :
        DrawAll("DrawBox", DrawBox(p[1], p[2], s[1], s[2], c))
CallFillRect ==
    \E p \in Coords, s \in BoxSizes, c \in Colors :
        DrawAll("FillRect", FillRect(p[1], p[2], s[1], s[2], c))
CallHLine ==
    \E p \in Coords, w \in HLineWidths, c \in Colors :
        DrawAll("HLine", HLine(p[1], p[2], w, c))
CallText ==
    \E p \in Coords, c \in Colors, s \in Texts :
        DrawAll("Text", Text(p[1], p[2], c, s))
CallTextBg ==
    \E p \in Coords, c \in Colors, s \in Texts :
        DrawAll("TextBg", TextBg(p[1], p[2], c, ColInput, s))
CallTextBold ==
    \E p \in Coords, c \in Colors, s \in Texts :
        DrawAll("TextBold", TextBold(p[1], p[2], c, s))
CallDrawBar ==
    \E p \in Coords :
        DrawAll("DrawBar",
                DrawBar(p[1], p[2], given.w, given.num, given.den,
                        ColAccent, ColInput))
CallSlider == DrawAll("Slider", Slider(6, given.chargeLimit, given.W))
CallDrawButton ==
    \E p \in Coords, s \in Texts, sel \in BOOLEAN :
        DrawAll("DrawButton", DrawButton(p[1], p[2], s, sel, ColAccent))
CallDrawToggle ==
    \E p \in Coords, on \in BOOLEAN :
        DrawAll("DrawToggle", DrawToggle(p[1], p[2], on))

Composite ==
    \/ CallFg
    \/ CallBg
    \/ CallDrawBox
    \/ CallFillRect
    \/ CallHLine
    \/ CallText
    \/ CallTextBg
    \/ CallTextBold
    \/ CallDrawBar
    \/ CallSlider
    \/ CallDrawButton
    \/ CallDrawToggle

\* one goroutine building a frame with the primitives and the composites
ThemeNext ==
    \/ Clear
    \/ CallMoveTo
    \/ CallSetFg
    \/ CallSetBg
    \/ CallResetStyle
    \/ CallBold
    \/ CallDim
    \/ CallUnderline
    \/ CallReverse
    \/ CallWrite
    \/ Composite

ThemeSpec == CompInit /\ [][ThemeNext]_vars

\* ------------------------------------------------------------------------
\* One goroutine drawing bars: the fraction of DrawBar is num / BarDen, from
\* -1/4 to 5/4; the slider is drawn with every charge limit the program
\* keeps (app.go 954, 958 and backend GetChargeLimit: 20..100) at the
\* terminal widths that give each slider width
\* ------------------------------------------------------------------------
BarDen == 64
BarGivens ==
    {[DefaultGiven EXCEPT !.w = w, !.num = n, !.den = BarDen] :
        w \in 0..MaxBarWidth, n \in (0 - BarDen \div 4)..(BarDen + BarDen \div 4)}
SliderGivens ==
    {[DefaultGiven EXCEPT !.chargeLimit = c, !.W = W] :
        c \in 20..100, W \in MinWidth..(MinWidth + 2 * MaxBarWidth)}

BarInit ==
    /\ given \in BarGivens \cup SliderGivens
    /\ RawStart
    /\ wire = <<>>
    /\ typed = wire
    /\ pc = [t \in Threads |-> IF t = "main" THEN "comp_idle" ELSE "s_wait"]
    /\ ret = [t \in Threads |-> IF t = "main" THEN "comp_idle" ELSE "none"]

BarNext == Clear \/ CallDrawBar \/ CallSlider

BarSpec == BarInit /\ [][BarNext]_vars

\* ------------------------------------------------------------------------
\* One goroutine calling pad with a string of 0..MaxPadLen distinct runes and
\* a target width of 1..MaxPadWidth
\* ------------------------------------------------------------------------
PadGivens ==
    {[DefaultGiven EXCEPT !.s = Word(n), !.pw = w] :
        n \in 0..MaxPadLen, w \in 1..MaxPadWidth}

CallPad ==
    /\ CompIdle
    /\ call' = [fn |-> "pad", out |-> pad(given.s, given.pw)]
    /\ UNCHANGED <<moreVars, pass, given, run, keys, envVars, ttyVars, ioVars, ctlVars,
                   sigVars, endVars, app, inVars, histVars>>

PadInit ==
    /\ given \in PadGivens
    /\ RawStart
    /\ wire = <<>>
    /\ typed = wire
    /\ pc = [t \in Threads |-> IF t = "main" THEN "comp_idle" ELSE "s_wait"]
    /\ ret = [t \in Threads |-> IF t = "main" THEN "comp_idle" ELSE "none"]

PadNext == CallPad

PadSpec == PadInit /\ [][PadNext]_vars

\* ========================================================================
\* Properties
\* ========================================================================
Exited == proc = "exited"

\* the terminal is as the process found it: the settings it started with,
\* the main screen, the cursor visible
Restored == termios = termios0 /\ Screen = AltOff /\ Cursor = CurShow

\* C1: when the process ends because main returned after the loop saw
\* App.running false, ExitRaw has acted, the raw flag is false and the
\* terminal has its original settings, the main screen and a visible cursor.
C1_NormalExitRestored ==
    (Exited /\ exitVia = "return") =>
        /\ ~app.running
        /\ \E i \in 1..Len(ops) : ops[i] = "release"
        /\ ~inRaw
        /\ termios = origTermios
        /\ Restored

C1_Witness ==
    /\ Exited
    /\ exitVia = "return"
    /\ Frames >= 1
    /\ key = KeyEvent("KeyCtrlQ", 0)
    /\ termios0 = CookedTermios

\* C2 (as claimed): when the process ends through the signal goroutine, the
\* last screen directive written is exit-alternate-screen, the last cursor
\* directive is show-cursor and the original settings are in force.
C2_Claim == (Exited /\ exitVia = "signal") => Restored

\* C3 (as claimed): the restoration sequence is written at most once, the
\* saved settings are re-applied at most once, and the raw flag is false
\* when the process ends through either ExitRaw caller.
C3_Claim ==
    /\ Count(out, RestoreSeq) <= 1
    /\ applies <= 1
    /\ (Exited /\ exitVia \in {"return", "signal"}) => ~inRaw

\* C4 (as claimed): no restoration sequence is written between the first
\* and the last write of one flush.
C4_Claim ==
    \A i \in 1..Len(out) :
        out[i] = RestoreSeq =>
            Count(SubSeq(out, 1, i - 1), FlushHead)
                = Count(SubSeq(out, 1, i - 1), FlushTail)

\* C5: once a signal is buffered for the signal goroutine, the process
\* eventually ends with the raw flag cleared, whether or not the main
\* goroutine takes another step.
C5_SignalEndsProcess == (sigCh = 1) ~> (Exited /\ ~inRaw)

C5_Witness ==
    /\ Exited
    /\ exitVia = "signal"
    /\ pc["main"] = "rk_b1"
    /\ ~inRaw

\* C6: an ExitRaw call that finds the raw flag false returns at once: it
\* writes nothing, applies no settings and leaves the Terminal as it was.
C6_ReleaseNoOp ==
    [][(pc["main"] = "ex_check" /\ ~inRaw) =>
          /\ pc'["main"] = ret["main"]
          /\ out' = out
          /\ termios' = termios
          /\ applies' = applies
          /\ origTermios' = origTermios
          /\ inRaw' = inRaw]_vars

C6_Witness == ops = <<"release_noop", "acquire_ok", "release", "release_noop">>

\* C7: after an ExitRaw call that acted, the settings in force equal the
\* settings that were in force before the EnterRaw call it undoes.
C7_RoundTrip ==
    (ops # <<>> /\ ops[Len(ops)] = "release") =>
        /\ termios = snap
        /\ termios = origTermios

C7_Witness ==
    /\ ops = <<"acquire_ok", "release">>
    /\ termios0 = SevenBitTermios
    /\ termios = SevenBitTermios

\* C8: on a standard input where the settings query or the settings apply
\* fails, every EnterRaw call returns an error, the settings in force stay
\* the original ones, the raw flag stays false, nothing is written, and
\* every ExitRaw call is a no-op.
C8_FailedAcquire ==
    tty # "ok" =>
        /\ termios = termios0
        /\ ~inRaw
        /\ out = <<>>
        /\ applies = 0
        /\ \A i \in 1..Len(ops) : ops[i] \in {"acquire_err", "release_noop"}

C8_Witness == tty = "noset" /\ ops = <<"acquire_err", "release_noop">>

EscapeTable ==
    {<<<<ESC, LBracket, 65>>, "KeyUp">>,
     <<<<ESC, LBracket, 66>>, "KeyDown">>,
     <<<<ESC, LBracket, 67>>, "KeyRight">>,
     <<<<ESC, LBracket, 68>>, "KeyLeft">>,
     <<<<ESC, LBracket, 72>>, "KeyHome">>,
     <<<<ESC, LBracket, 70>>, "KeyEnd">>,
     <<<<ESC, LBracket, 51, Tilde>>, "KeyDelete">>,
     <<<<ESC, LBracket, 53, Tilde>>, "KeyPgUp">>,
     <<<<ESC, LBracket, 54, Tilde>>, "KeyPgDn">>}

\* C10 (as claimed): a ReadKey call that decoded a recognized escape
\* sequence returns its event and has removed exactly the bytes of that
\* sequence from the terminal input queue.
C10_Claim ==
    \A e \in EscapeTable :
        (pc["main"] = "rk_ret" /\ used = e[1]) =>
            /\ key = KeyEvent(e[2], 0)
            /\ taken = Len(e[1])

\* the ReadKey call has returned
Returned == pc["main"] = "rk_ret"

\* the ReadKey call is at one of its ReadByte calls
Reading == pc["main"] \in {"rk_b1", "rk_b2", "rk_b3", "rk_b4"}

\* third bytes of ESC [ x with an event of their own (terminal.go 228-247)
KnownThird == {65, 66, 67, 68, 72, 70, 51, 53, 54}

\* the bytes the call read are ESC alone, ESC and a byte other than '[',
\* ESC '[' alone, or ESC '[' and a third byte without an event
Malformed ==
    /\ used # <<>>
    /\ used[1] = ESC
    /\ \/ Len(used) = 1
       \/ Len(used) = 2
       \/ Len(used) = 3 /\ used[3] \notin KnownThird

\* C11: a ReadKey call that read ESC and then no second byte, a second
\* byte other than '[', or '[' and no third byte or a third byte without an
\* event, returns the single event Escape; at each of its reads after ESC
\* the read returns (with a byte, an error or on the timeout), so the call
\* does not hang.
C11_MalformedIsEscape ==
    /\ (Returned /\ Malformed) => key = KeyEvent("KeyEscape", 0)
    /\ pc["main"] \in {"rk_b2", "rk_b3"} => CanRead

\* the call returned Escape for ESC '[' and a third byte without an event
C11_Witness ==
    /\ Returned
    /\ used = <<ESC, LBracket, 113>>
    /\ key = KeyEvent("KeyEscape", 0)

\* the event of ESC '[' digit (terminal.go 240-248)
TildeKey(d) ==
    CASE d = 51 -> "KeyDelete"
      [] d = 53 -> "KeyPgUp"
      [] d = 54 -> "KeyPgDn"

\* C12 (as claimed): a ReadKey call that read ESC '[' and a digit 3, 5 or
\* 6 and one more byte returns Delete, PageUp or PageDown exactly when that
\* byte is the terminator '~'.
C12_Claim ==
    \A d \in {51, 53, 54} :
        (Returned /\ Len(used) = 4 /\ SubSeq(used, 1, 3) = <<ESC, LBracket, d>>)
            => (key = KeyEvent(TildeKey(d), 0) <=> used[4] = Tilde)

\* the chords of the key events (terminal.go 189-192)
InterruptChord == "KeyCtrlC"
QuitChord == "KeyCtrlQ"
SaveChord == "KeyCtrlS"
RefreshChord == "KeyCtrlR"

\* C13 (as claimed): the single bytes 3, 17, 18 and 19 decode to the
\* chords interrupt, quit, save and refresh respectively, each from one
\* ReadByte.
C13_Claim ==
    \A c \in {<<3, InterruptChord>>, <<17, QuitChord>>,
               <<18, SaveChord>>, <<19, RefreshChord>>} :
        (Returned /\ used # <<>> /\ used[1] = c[1])
            => key = KeyEvent(c[2], 0) /\ reads = 1

\* C13 (amended): the single bytes 3, 17, 18 and 19 decode to the chords
\* interrupt, quit, refresh and save respectively (18 is Ctrl-R, 19 is
\* Ctrl-S), each from one ReadByte.
C13_ChordBytes ==
    \A c \in {<<3, InterruptChord>>, <<17, QuitChord>>,
               <<18, RefreshChord>>, <<19, SaveChord>>} :
        (Returned /\ used # <<>> /\ used[1] = c[1])
            => key = KeyEvent(c[2], 0) /\ reads = 1 /\ Len(used) = 1

\* the call returned for the byte 19
C13_Witness ==
    /\ Returned
    /\ used = <<19>>
    /\ key = KeyEvent(SaveChord, 0)

\* first bytes that do not reach the default branch, the byte 0 aside,
\* whose event is the character event of code point 0 (terminal.go 203-217,
\* 251)
ListedFirst == {3, 17, 18, 19, 9, 10, 13, ESC, 127}

\* C14: a ReadKey call whose first byte is 9 returns Tab, 10 or 13 Enter,
\* 127 Backspace, and any byte outside the decoder table a character event
\* carrying the code point of that byte; the returned event has exactly one
\* variant, and only a character event carries a code point.
C14_PlainBytes ==
    (Returned /\ used # <<>>) =>
        /\ used[1] = 9 => key = KeyEvent("KeyTab", 0)
        /\ used[1] \in {10, 13} => key = KeyEvent("KeyEnter", 0)
        /\ used[1] = 127 => key = KeyEvent("KeyBackspace", 0)
        /\ used[1] \notin ListedFirst => key = KeyEvent("KeyChar", used[1])
        /\ key.Type \in KeyTypes
        /\ key.Type # "KeyChar" => key.Char = 0

\* the call returned a character event for the byte 200
C14_Witness ==
    /\ Returned
    /\ used = <<200>>
    /\ key = KeyEvent("KeyChar", 200)

\* C15: every ReadKey call returns, with one event, after at most four
\* ReadByte calls, whatever the input is and also when the input stream has
\* closed or fails; each ReadByte is bounded by the read timeout of raw
\* mode.
C15_DecoderTerminates ==
    /\ [](Reading => ~ReadWaits(termios) /\ CanRead)
    /\ [](reads <= 4)
    /\ [](Returned => key.Type \in KeyTypes /\ reads >= 1)
    /\ (pc["main"] = "rk_b1") ~> Returned

\* a call returned after four reads on a closed input stream
C15_Witness ==
    /\ Returned
    /\ reads = 4
    /\ hup

\* main is past the dispatch of the last key it read and has not started
\* the next ReadKey call
BetweenKeys == pc["main"] \in {"m_render", "fl_head", "fl_body", "fl_tail", "m_loop"}

\* positions of main once the loop has stopped: the loop condition, the
\* deferred ExitRaw, the return
Stopping == pc["main"] \in {"m_loop", "ex_check", "ex_write", "ex_ioctl",
                            "ex_clear", "m_return"}

\* C16 (as claimed): end to end, ESC '[' 'A' read by one ReadKey call is one
\* Up event, dispatched once; a Ctrl-C byte typed where a key starts
\* produces an interrupt event, so once the program has taken everything
\* typed and is between keys that event has been dispatched; and once a
\* dispatch has stopped the loop, on any tab, main only goes on to the loop
\* condition and the deferred ExitRaw: it reads no key and renders no frame.
C16_Claim ==
    /\ (Returned /\ used = <<ESC, LBracket, 65>>) => key = KeyEvent("KeyUp", 0)
    /\ (BetweenKeys /\ used = <<ESC, LBracket, 65>>)
           => events # <<>> /\ events[Len(events)] = KeyEvent("KeyUp", 0)
    /\ (app # NoApp /\ ~app.running) => Stopping \/ Exited
    /\ (/\ BetweenKeys
        /\ wire = <<>>
        /\ stdin = <<>>
        /\ typed # <<>>
        /\ typed[Len(typed)] = 3)
           => \E i \in DOMAIN events : events[i] = KeyEvent(InterruptChord, 0)

\* C17 (as claimed): with a working output, each Flush call transmits the
\* exact concatenation of the outputs of the draw calls since the last
\* Clear, in call order, as one write: after EnterRaw's write, standard
\* output has received one write per Flush call, the frame of that call
\* (stated for frames of two draw calls or more).
C17_Claim ==
    (/\ CompIdle
     /\ sink = "ok"
     /\ \A i \in DOMAIN sent : Len(sent[i]) >= 2)
        => out = <<EnterSeq>> \o sent

\* C18 (as claimed): when a Flush call that began to transmit has returned,
\* either the whole frame buffer has been written (standard output has
\* received every non-empty frame as often as it was flushed), or the call
\* reported an I/O error to its caller.
C18_Claim ==
    (CompIdle /\ sent # <<>> /\ Frames = Len(sent)) =>
        \/ \A k \in DOMAIN sent :
              sent[k] # <<>> =>
                  Count(out, sent[k])
                      >= Cardinality({i \in DOMAIN sent : sent[i] = sent[k]})
        \/ FlushFailsOutward

\* C19: after construction and after every updateSize call the stored
\* width is at least 40 and the stored height at least 10, whatever the
\* window-size query reports and also when it fails.
C19_FloorHolds == width >= 40 /\ height >= 10

\* the query failed and the stored dimensions are the defaults
C19_Witness ==
    /\ wsz = QueryFails
    /\ width = 80
    /\ height = 24

IsBar == call # <<>> /\ call.fn \in {"DrawBar", "Slider"}
BarW == IF call.fn = "DrawBar" THEN given.w ELSE SliderWidth(given.W)
BarNum == IF call.fn = "DrawBar" THEN given.num ELSE given.chargeLimit - 20
BarDenom == IF call.fn = "DrawBar" THEN given.den ELSE 80
FillAt == IF call.fn = "DrawBar" THEN 3 ELSE 4
TrackAt == FillAt + 2

\* C21: a bar of track width w at fraction p is floor(p * w) cells, clamped
\* to 0..w, after the fill colour and then the remaining w minus filled cells
\* after the track colour, so the two runs total w; width 20 at fraction 0.5
\* is 10 and 10, fraction 0.0 is 0 and w, fraction 1.0 is w and 0.
C21_BarSplit ==
    IsBar =>
        LET filled == clamp((BarNum * BarW) \div BarDenom, 0, BarW)
            fill == call.out[FillAt]
            track == call.out[TrackAt]
        IN  /\ call.out[FillAt - 1] = Bg(ColAccent)
            /\ fill = rep(" ", filled)
            /\ Len(fill) = filled
            /\ call.out[TrackAt - 1] = Bg(ColInput)
            /\ track = rep(" ", BarW - filled)
            /\ Len(fill) + Len(track) = BarW
            /\ (BarNum = 0 => Len(fill) = 0 /\ Len(track) = BarW)
            /\ (BarNum = BarDenom => Len(fill) = BarW /\ Len(track) = 0)
            /\ (BarW = 20 /\ 2 * BarNum = BarDenom =>
                    Len(fill) = 10 /\ Len(track) = 10)

C21_Witness ==
    /\ IsBar
    /\ call.fn = "DrawBar"
    /\ given.w = 20
    /\ 2 * given.num = given.den
    /\ Len(call.out[3]) = 10
    /\ Len(call.out[5]) = 10
    /\ buf = call.out

\* the last helper call was pad; the cells its result takes on the screen
Padded == call # <<>> /\ call.fn = "pad"
Spaces(n) == [i \in 1..n |-> Space]

\* C22 as claimed: for every target width w >= 1 pad returns a string of
\* display width exactly w; a string longer than w becomes its first w-1
\* characters followed by one ellipsis marker, and a string shorter than w is
\* right-padded with spaces to exactly w.
C22_Claim ==
    Padded =>
        LET s == given.s
            w == given.pw
        IN  /\ Len(call.out) = w
            /\ (Len(s) > w => call.out = Append(SubSeq(s, 1, w - 1), Ellipsis))
            /\ (Len(s) < w => call.out = s \o Spaces(w - Len(s)))

\* C22 amended: the result has display width exactly w; for w > 3 a string
\* longer than w becomes its first w-1 characters followed by one ellipsis
\* marker, for w <= 3 it becomes its first w characters with no ellipsis
\* marker, and a string shorter than w is right-padded with spaces.
C22_PadWidth ==
    Padded =>
        LET s == given.s
            w == given.pw
        IN  /\ Len(call.out) = w
            /\ (Len(s) > w /\ w > 3 =>
                    call.out = Append(SubSeq(s, 1, w - 1), Ellipsis))
            /\ (Len(s) > w /\ w <= 3 =>
                    /\ call.out = SubSeq(s, 1, w)
                    /\ \A i \in 1..w : call.out[i] # Ellipsis)
            /\ (Len(s) < w => call.out = s \o Spaces(w - Len(s)))

C22_Witness ==
    /\ Padded
    /\ Len(given.s) = 12
    /\ given.pw = 6
    /\ call.out = <<97, 98, 99, 100, 101, Ellipsis>>

\* a step that is a draw call: it adds an entry to the calls made since the
\* last Clear
DrawStep == drawn' # drawn /\ drawn' # <<>>

\* C29: between a Clear and the next Flush every draw call, primitive or
\* composite, only appends to the frame buffer: the buffer before the call
\* is a prefix of the buffer after it, what is added is the output of the
\* call, and the call writes nothing to the terminal.
C29_DrawsAppend ==
    [][DrawStep =>
          /\ Len(buf') >= Len(buf)
          /\ SubSeq(buf', 1, Len(buf)) = buf
          /\ buf' = buf \o drawn'[Len(drawn')]
          /\ out' = out
          /\ errOut' = errOut]_vars

C29_Witness ==
    /\ CompIdle
    /\ Len(drawn) = 2
    /\ drawn[1] = DrawBox(3, 1, 4, 3, <<255, 128, 0>>)
    /\ drawn[2] = <<Write("ab")>>
    /\ buf = Flatten(drawn)
    /\ Len(buf) = 10
    /\ out = <<EnterSeq>>

\* the position directive for a 1-indexed row and column
Directive(row, col) == "ESC[" \o ToString(row) \o ";" \o ToString(col) \o "H"

\* what standard output has received after EnterRaw when every frame of fs
\* was flushed: per frame hide cursor, home, the frame, show cursor
RECURSIVE Flushed(_)
Flushed(fs) ==
    IF fs = <<>> THEN <<>>
    ELSE <<CurHide, CurHome>> \o Head(fs) \o <<CurShow>> \o Flushed(Tail(fs))

\* C30: with a working output each Flush emits, in this order, hide cursor,
\* move to home, the entire accumulated frame buffer, then show cursor, and
\* MoveTo(x, y) adds the 1-indexed directive ESC[(y+1);(x+1)H to the buffer.
C30_FlushOrder ==
    /\ [](sink = "ok" =>
            LET all == EnterSeq \o Flushed(sent)
                got == Flatten(out)
            IN  /\ Len(got) <= Len(all)
                /\ got = SubSeq(all, 1, Len(got))
                /\ (CompIdle => got = all))
    /\ [][\A c \in Coords :
              drawn' = Append(drawn, <<MoveTo(c[1], c[2])>>) =>
                  buf' = Append(buf, Directive(c[2] + 1, c[1] + 1))]_vars

C30_Witness ==
    /\ CompIdle
    /\ sink = "ok"
    /\ sent = <<<<"ESC[2;4H", "ab">>>>
    /\ Flatten(out) = <<AltOn, CurHide, CurHide, CurHome, "ESC[2;4H", "ab", CurShow>>

\* a Render call of the current pass ended in a panic
RenderAborted == \E i \in DOMAIN pass : pass[i] = "panic"

\* C27 (as claimed): with any dimensions the size query can leave (width at
\* least 40, height at least 10), on every tab and with the dimensions
\* changing between frames, a Render call never aborts: the process never
\* ends in a panic raised while drawing.
C27_Claim ==
    (width >= MinWidth /\ height >= MinHeight) =>
        /\ ~RenderAborted
        /\ exitVia # "panic"

\* the passes of the loop of main, as sequences of what main did: a pass
\* that found a resize pending, the pass of an idle event and the pass of a
\* key; a Render call that panics ends the pass and the loop (see C27)
IsPrefix(s, t) == Len(s) <= Len(t) /\ s = SubSeq(t, 1, Len(s))
ResizePass == <<"resize", "render", "flush">>
IdlePass == <<"read", "idle", "render", "flush">>
KeyPass == <<"read", "key", "render", "flush">>
InPass(p) == pass # <<>> /\ pass[1] = p
Did(x) == \E i \in DOMAIN pass : pass[i] = x
AtLoopTop == proc = "running" /\ pc["main"] = "m_loop"
SizeCurrent == width = updateSize(wsz).width /\ height = updateSize(wsz).height

\* what C23 says of a single pass: a pass that finds a resize pending has
\* the dimensions re-queried, calls Render once and reads no input; the
\* loop top never blocks, and main begins an input read only on a pass that
\* found no resize pending
PassOnResize ==
    /\ [](InPass("resize") =>
            /\ IsPrefix(pass, ResizePass) \/ pass = <<"resize", "panic">>
            /\ winchCh = 0 => SizeCurrent
            /\ AtLoopTop => pass = ResizePass)
    /\ [](AtLoopTop => ENABLED MainLoop)
    /\ [][(pc["main"] = "m_loop" /\ pc'["main"] = "rk_b1") => winchCh = 0]_vars

\* C23 (as claimed): the above, and therefore a pending resize is always
\* followed by a render with re-queried dimensions before the next key is
\* dispatched: no key is dispatched while a resize is pending.
C23_Claim ==
    /\ PassOnResize
    /\ [][events' # events => winchCh = 0]_vars

\* C23 amended: the above, and a resize that is pending when a pass begins
\* is followed by a Render call with re-queried dimensions before the next
\* key is read; a resize that arrives after a pass has begun its input read
\* waits until the key of that pass has been dispatched.
C23_ResizeFirst ==
    /\ PassOnResize
    /\ [][events' # events => InPass("read")]_vars
    /\ [][(pc["main"] = "m_loop" /\ winchCh > 0 /\ app.running
              /\ pc'["main"] # pc["main"])
            => (pc'["main"] = "m_render" /\ events' = events /\ reads' = reads
                  /\ SizeCurrent')]_vars

C23_Witness ==
    /\ AtLoopTop
    /\ pass = ResizePass
    /\ events # <<>>
    /\ winchCh = 0
    /\ wsz = StartSize
    /\ width = 100
    /\ height = 30
    /\ Frames = 3

\* C24 (as claimed): on an idle event main renders only if a status message
\* is set: a pass of an idle event with no status message has no Render
\* call and no Flush.
C24_Claim ==
    (Len(pass) >= 2 /\ pass[2] = "idle" /\ app.statusMsg = "") =>
        ~Did("render") /\ ~Did("flush")

\* C24 amended: on an idle event main calls Render once whether or not a
\* status message is set: the pass of an idle event has one Render call,
\* and one Flush when that call completes, before the loop condition is
\* evaluated again.
C24_IdleRenders ==
    (Len(pass) >= 2 /\ pass[2] = "idle") =>
        /\ IsPrefix(pass, IdlePass) \/ pass = <<"read", "idle", "panic">>
        /\ pc["main"] = "m_loop" => pass = IdlePass
        /\ Len(pass) = 2 => pc["main"] = "m_render"

C24_Witness ==
    /\ AtLoopTop
    /\ pass = IdlePass
    /\ app.statusMsg = StatusText
    /\ events = <<KeyEvent("KeyEnter", 0)>>
    /\ Frames = 3

\* main is past its loop: in the deferred ExitRaw, at its return, in the
\* report of a panic, or the process has ended that way
LeftLoop ==
    \/ pc["main"] \in {"ex_check", "ex_write", "ex_ioctl", "ex_clear",
                       "m_return", "m_panic"}
    \/ Exited /\ exitVia \in {"return", "panic"}

\* C25 (as claimed): a key event is dispatched once and then rendered once,
\* unless the dispatch stopped the App, and then no render follows and the
\* loop exits; the loop never exits for any other reason than the App
\* having stopped.
C25_Claim ==
    /\ (Len(pass) >= 2 /\ pass[2] = "key") =>
          /\ Len(events) >= 1
          /\ app.running => IsPrefix(pass, KeyPass)
          /\ ~app.running => pass = <<"read", "key">>
          /\ (AtLoopTop /\ app.running) => pass = KeyPass
    /\ LeftLoop => ~app.running

\* C26: a window-change signal only marks a resize as pending: its delivery
\* changes neither the dimensions nor the frame buffer nor the output, the
\* dimensions and the frame buffer change only in steps of main, the signal
\* goroutine is never in Render or Flush, and notifications that arrive
\* before the loop drains them leave one pending resize.
C26_SignalOnlyMarks ==
    /\ [](winchCh \in {0, 1})
    /\ [](pc["sig"] \notin {"m_render", "fl_head", "fl_body", "fl_tail"})
    /\ [][wsz' # wsz =>
             /\ winchCh' = 1
             /\ width' = width /\ height' = height
             /\ buf' = buf /\ drawn' = drawn /\ out' = out
             /\ pc' = pc /\ pass' = pass]_vars
    /\ [][(width' # width \/ height' # height \/ buf' # buf \/ pass' # pass)
             => pc'["main"] # pc["main"]]_vars

C26_WinchSeen == handlers /\ winchCh = 1
C26_Witness ==
    /\ C26_WinchSeen
    /\ pc["main"] = "m_render"
    /\ Frames = 0
    /\ wsz = StartSize
    /\ width = 100
    /\ height = 30

\* C28 (as claimed): ReadKey returns the idle event exactly when it read no
\* byte (a timeout or a read error), and a call that read a byte returns an
\* event that main dispatches to the App.
C28_Claim ==
    /\ Returned => (IsIdle(key) <=> used = <<>>)
    /\ (Len(pass) >= 2 /\ pass[1] = "read") => (pass[2] = "key" <=> used # <<>>)

\* ------------------------------------------------------------------------
\* The App alone, from the state main.go 33-37 leave it in: HandleKey is
\* called with any key event while App.running, the backend command of a
\* call succeeds or fails, and between two calls Render stores the size
\* the window has by then
\* ------------------------------------------------------------------------
MaxKeys == 3        \* HandleKey calls of one AppSpec run

\* the key events of the navigation, of the tab digits and of the letters
\* q, e, s and x
AppKeys ==
    {KeyEvent(t, 0) : t \in {"KeyUp", "KeyDown", "KeyLeft", "KeyRight", "KeyEnter",
                             "KeyTab", "KeyBackspace", "KeyPgUp", "KeyPgDn",
                             "KeyCtrlC", "KeyCtrlQ"}}
        \cup {KeyEvent("KeyChar", c) : c \in (49..55) \cup {113, 101, 115, 120}}

\* answers of the backend to App.Init: the default ones, asusctl missing, a
\* limit at either end of the range with an Aura configuration, and a
\* failed profile query with a report that holds no usable number
AppBackends ==
    {DefaultBackend,
     [DefaultBackend EXCEPT !.installed = FALSE],
     [DefaultBackend EXCEPT !.chargeOut = ChargeInfo(<<49, 48, 48, 37>>), !.kbd = "high",
                            !.aura = [Mode |-> "RainbowCycle", c1 |-> <<250, 90, 10>>,
                                      c2 |-> <<0, 0, 0>>, Speed |-> "High"]],
     [DefaultBackend EXCEPT !.chargeOut = ChargeInfo(<<50, 48, 37>>), !.profile = "Quiet",
                            !.aura = [Mode |-> "Breathe", c1 |-> <<0, 10, 250>>,
                                      c2 |-> <<255, 255, 255>>, Speed |-> "Low"]],
     [DefaultBackend EXCEPT !.chargeOut = <<<<49, 53, 48, 37>>, <<53>>, <<110, 47, 97>>>>, !.profile = "Unknown"]}

AppGivens == {[DefaultGiven EXCEPT !.backend = b] : b \in AppBackends}

AppSizes == {WinSize(DefaultWidth, DefaultHeight), StartSize}

\* main.go 58-63: one HandleKey call; call keeps the key, the outcome of the
\* backend command and the command the call ran
AppKey ==
    /\ proc = "running"
    /\ pc["main"] = "app_keys"
    /\ app.running
    /\ keys < MaxKeys
    /\ \E k \in AppKeys, ok \in BOOLEAN :
          /\ app' = HandleKey(app, k, ok, width)
          /\ call' = [fn |-> "HandleKey", key |-> k, ok |-> ok, cmd |-> Issued(app, k)]
    /\ keys' = keys + 1
    /\ UNCHANGED <<moreVars, pass, given, run, envVars, ttyVars, ioVars, ctlVars,
                   sigVars, endVars, inVars, histVars>>

\* main.go 41, app.go 243, terminal.go 44-58: the size Render stores
AppRender ==
    /\ proc = "running"
    /\ pc["main"] = "app_keys"
    /\ app.running
    /\ wsz' \in AppSizes \ {wsz}
    /\ width' = updateSize(wsz').width
    /\ height' = updateSize(wsz').height
    /\ UNCHANGED <<hup, events, sink, drawn, sent, auxVars, envVars, ttyVars, ioVars,
                   ctlVars, sigVars, endVars, app, inVars, histVars>>

AppStart ==
    /\ given \in AppGivens
    /\ RawStart
    /\ wire = <<>>
    /\ typed = wire
    /\ pc = [t \in Threads |-> IF t = "main" THEN "app_keys" ELSE "s_wait"]
    /\ ret = [t \in Threads |-> "none"]

AppNext == AppKey \/ AppRender

AppSpec == AppStart /\ [][AppNext]_vars

\* ------------------------------------------------------------------------
\* Properties of the signal path, the App, the console log, Backend.run
\* and pad
\* ------------------------------------------------------------------------
\* the signal goroutine takes a step: it receives the signal, runs a step
\* of ExitRaw or calls os.Exit
SigPathStep == pc'["sig"] # pc["sig"]

\* C31: no step of the signal goroutine (the receive, the steps of its
\* ExitRaw call, os.Exit) changes the frame buffer, the stored width and
\* height or any App field; the path ends with the process exited.
C31_SignalPathLeaves ==
    /\ [][SigPathStep =>
              /\ buf' = buf
              /\ width' = width
              /\ height' = height
              /\ app' = app]_vars
    /\ [](pc["sig"] = "s_done" => Exited /\ exitVia = "signal")

C31_Witness ==
    /\ Exited
    /\ exitVia = "signal"
    /\ pc["sig"] = "s_done"
    /\ ~inRaw
    /\ buf # <<>>
    /\ app # NoApp
    /\ events # <<>>

\* the focus index is an index of the list the active tab focuses on
FocusValid(a) ==
    CASE a.activeTab = TabProfile -> a.focusIdx \in 0..2
      [] a.activeTab = TabKeyboard -> a.focusIdx \in 0..3
      [] a.activeTab = TabAura ->
            CASE a.auraSection = 0 -> a.focusIdx \in 0..11
              [] a.auraSection \in {1, 2} -> a.focusIdx \in 0..8
              [] a.auraSection = 3 -> a.focusIdx \in 0..2
              [] OTHER -> FALSE
      [] a.activeTab \in {TabBattery, TabBios} -> a.focusIdx \in 0..1
      [] a.activeTab = TabFans -> a.focusIdx \in 0..7
      [] a.activeTab = TabConsole -> TRUE
      [] OTHER -> FALSE

\* the values the handlers and the pages index the tables with
IndexesValid(a) ==
    /\ a.auraMode \in 0..(Len(auraModes) - 1)
    /\ a.auraColour1 \in 0..(Len(auraColours) - 1)
    /\ a.auraColour2 \in 0..(Len(auraColours) - 1)
    /\ a.auraSpeed \in 0..(Len(auraSpeeds) - 1)
    /\ a.kbdLevel \in 0..(Len(kbdValues) - 1)
    /\ a.selectedFan \in 0..1

KeyStep == keys' = keys + 1
IsDigitKey(k) == k.Type = "KeyChar" /\ k.Char >= 49 /\ k.Char <= 55
Typing(a) == a.activeTab = TabConsole /\ a.consoleInput # <<>>

IsQ(k) == k.Type = "KeyChar" /\ k.Char = 113
IsStopChord(k) == k.Type \in {"KeyCtrlC", "KeyCtrlQ"}

\* C34: 'q' stops the application on every tab except Console; on the
\* Console tab it is appended to the console input, nothing else changes
\* and the application keeps running; on the Console tab the only keys that
\* stop the application are Ctrl-C and Ctrl-Q, and they do.
C34_QuitKey ==
    [][KeyStep =>
          LET k == call'.key
          IN  /\ (IsQ(k) /\ app.activeTab # TabConsole) => ~app'.running
              /\ (IsQ(k) /\ app.activeTab = TabConsole) =>
                     /\ app' = [app EXCEPT !.consoleInput = Append(@, 113)]
                     /\ app'.running
              /\ (app.activeTab = TabConsole /\ ~app'.running) => IsStopChord(k)
              /\ IsStopChord(k) => ~app'.running]_vars

C34_Witness ==
    /\ keys = 3
    /\ app.activeTab = TabConsole
    /\ app.consoleInput = <<113>>
    /\ ~app.running
    /\ call.key = KeyEvent("KeyCtrlQ", 0)

\* the slider of the Battery tab has the focus
OnSlider(a) == a.activeTab = TabBattery /\ a.focusIdx = 0
InRange(v) == v >= ChargeMin /\ v <= ChargeMax

\* C35: after App.Init and any sequence of HandleKey calls the charge limit
\* is within 20..100; Left and Right change it by 5, clamped to 20..100,
\* while the slider is focused on the Battery tab, and no other key or
\* focus changes it; Enter on the slider sends the limit to the backend,
\* and the value sent is within 20..100.
C35_ChargeLimit ==
    /\ [](InRange(app.chargeLimit))
    /\ [][KeyStep =>
              LET k == call'.key
                  c == app.chargeLimit
                  cmd == call'.cmd
              IN  /\ (OnSlider(app) /\ k.Type = "KeyLeft") =>
                         app'.chargeLimit = (IF c - 5 < 20 THEN 20 ELSE c - 5)
                  /\ (OnSlider(app) /\ k.Type = "KeyRight") =>
                         app'.chargeLimit = (IF c + 5 > 100 THEN 100 ELSE c + 5)
                  /\ ~(OnSlider(app) /\ k.Type \in {"KeyLeft", "KeyRight"}) =>
                         app'.chargeLimit = c
                  /\ (OnSlider(app) /\ k.Type = "KeyEnter") =>
                         /\ cmd # <<>>
                         /\ cmd.fn = "SetChargeLimit"
                         /\ cmd.out.pct = c
                         /\ cmd.out.arg = c
                         /\ InRange(cmd.out.arg)]_vars

C35_Witness ==
    /\ keys = 3
    /\ OnSlider(app)
    /\ GetChargeLimit(given.backend.chargeOk, given.backend.chargeOut) = 20
    /\ app.chargeLimit = 25
    /\ call.key = KeyEvent("KeyEnter", 0)
    /\ call.cmd.fn = "SetChargeLimit"
    /\ call.cmd.out.arg = 25

\* the settings the Profile, Keyboard and BIOS pages display
Displayed(a) == <<a.profile, a.kbdLevel, a.panelOverdrive, a.gpuMuxDedicated>>
OnSettingTab(a) == a.activeTab \in {TabProfile, TabKeyboard, TabBios}

\* C36: when the backend command run by Enter on the Profile, Keyboard or
\* BIOS tab fails, the active profile, the keyboard level, panel overdrive
\* and GPU MUX are what they were before the key and a failure status is
\* set; whenever one of the four changes, the key was Enter on one of these
\* tabs and its backend command succeeded.
C36_FailureKeepsSetting ==
    [][KeyStep =>
          LET k == call'.key
          IN  /\ (OnSettingTab(app) /\ k.Type = "KeyEnter" /\ ~call'.ok) =>
                     /\ Displayed(app') = Displayed(app)
                     /\ app'.statusMsg # ""
                     /\ ~app'.statusOk
              /\ Displayed(app') # Displayed(app) =>
                     /\ OnSettingTab(app)
                     /\ k.Type = "KeyEnter"
                     /\ call'.cmd # <<>>
                     /\ call'.ok]_vars

C36_Witness ==
    /\ keys = 3
    /\ app.activeTab = TabBios
    /\ app.focusIdx = 1
    /\ call.key = KeyEvent("KeyEnter", 0)
    /\ call.cmd.fn = "SetGpuMux"
    /\ ~call.ok
    /\ ~app.gpuMuxDedicated
    /\ app.statusMsg # ""
    /\ ~app.statusOk

IsE(k) == k.Type = "KeyChar" /\ k.Char = 101

\* C37 (as claimed): when the backend command run by 'e' on the Fans tab
\* fails, the custom-curves flag is what it was before the key, and the
\* flag changes only when that command succeeded.
C37_Claim ==
    [][KeyStep =>
          /\ (app.activeTab = TabFans /\ IsE(call'.key) /\ ~call'.ok) =>
                 app'.fanEnabled = app.fanEnabled
          /\ app'.fanEnabled # app.fanEnabled => call'.ok]_vars

\* ------------------------------------------------------------------------
\* The console log alone: addLog is called with one command after another,
\* each named by its position in the order of the calls
\* ------------------------------------------------------------------------
MaxLogged == 103    \* addLog calls of one LogSpec run

\* app.go 224-235
CallAddLog ==
    /\ proc = "running"
    /\ pc["main"] = "log_idle"
    /\ keys < MaxLogged
    /\ app' = addLog(app, ConsoleLine("cmd", <<keys + 1>>, TRUE))
    /\ keys' = keys + 1
    /\ UNCHANGED <<moreVars, pass, call, given, run, envVars, ttyVars, ioVars, ctlVars,
                   sigVars, endVars, inVars, histVars>>

LogStart ==
    /\ DecStart
    /\ wire = <<>>
    /\ typed = wire
    /\ pc = [t \in Threads |-> IF t = "main" THEN "log_idle" ELSE "s_wait"]
    /\ ret = [t \in Threads |-> "none"]

LogNext == CallAddLog

LogSpec == LogStart /\ [][LogNext]_vars

\* C38: the console log never holds more than 100 entries: after n logged
\* commands it holds the last min(n, 100) of them, in the order they were
\* logged.
C38_LogBounded ==
    LET log == app.consoleLog
        n == Len(log)
    IN  /\ n <= 100
        /\ n = (IF keys < 100 THEN keys ELSE 100)
        /\ \A i \in 1..n : log[i] = ConsoleLine("cmd", <<keys - n + i>>, TRUE)

C38_Witness ==
    /\ keys = 103
    /\ Len(app.consoleLog) = 100
    /\ app.consoleLog[1].Input = <<4>>
    /\ app.consoleLog[100].Input = <<103>>

\* C40 (as claimed): pad alters only the text of a string longer than the
\* target width w: a string of at most w runes is the start of the result
\* and the result holds no ellipsis marker, and a string of exactly w runes
\* is returned unchanged.
C40_Claim ==
    (Padded /\ Len(given.s) <= given.pw) =>
        /\ SubSeq(call.out, 1, Len(given.s)) = given.s
        /\ \A i \in 1..Len(call.out) : call.out[i] # Ellipsis
        /\ (Len(given.s) = given.pw => call.out = given.s)

\* ------------------------------------------------------------------------
\* Backend.run (backend.go 21-46): the caller makes a channel of capacity
\* 1, starts a worker goroutine and selects on the channel and a timer; run
\* holds one record per call made so far: where the caller is (at), where
\* the call's worker is, the command's process, what CombinedOutput
\* returned (outcome), the channel's buffer (done), the timer, what the
\* call returned (result) and, as history, which of delivery and timer
\* came first (first)
\* ------------------------------------------------------------------------
MaxRuns == 2        \* Backend.run calls of one RunSpec run

DoneCap == 1
TimedOutText == <<99, 111, 109, 109, 97, 110, 100, 32, 116, 105, 109, 101, 100, 32, 111, 117, 116>>
ExecFailed == [err |-> TRUE, out |-> <<>>]
Killed == [err |-> TRUE, out |-> <<115, 105, 103, 110, 97, 108, 58, 32, 107, 105, 108, 108, 101, 100>>]
\* what a command that runs to its end can leave: success with a line of
\* output, failure with a message
Outcomes == {[err |-> FALSE, out |-> <<111, 107, 10>>], [err |-> TRUE, out |-> <<32, 110, 111, 32, 100, 101, 118, 105, 99, 101, 10>>]}

\* strings.TrimSpace (backend.go 38)
IsSpace(c) == c \in {9, 10, 11, 12, 13, 32}
RECURSIVE TrimLeft(_)
TrimLeft(s) == IF s # <<>> /\ IsSpace(s[1]) THEN TrimLeft(Tail(s)) ELSE s
RECURSIVE TrimRight(_)
TrimRight(s) ==
    IF s # <<>> /\ IsSpace(s[Len(s)]) THEN TrimRight(SubSeq(s, 1, Len(s) - 1)) ELSE s
TrimSpace(s) == TrimRight(TrimLeft(s))

\* backend.go 37-39, 44
Received(r) == [ok |-> ~r.err, out |-> TrimSpace(r.out)]
TimedOut == [ok |-> FALSE, out |-> TimedOutText]

\* backend.go 21-26: a new call
NewRun ==
    [at |-> "go", worker |-> "none", cmd |-> "unstarted", outcome |-> <<>>,
     done |-> <<>>, timer |-> "off", result |-> <<>>, first |-> "none"]

Cur == Len(run)
Parked(r) == r.at = "parked"

\* backend.go 21-26
RunCall ==
    /\ Len(run) < MaxRuns
    /\ IF run = <<>> THEN TRUE ELSE run[Cur].at = "returned"
    /\ run' = Append(run, NewRun)

\* backend.go 28-34: the go statement
RunGo ==
    /\ run # <<>>
    /\ run[Cur].at = "go"
    /\ run' = [run EXCEPT ![Cur].at = "select", ![Cur].worker = "start"]

\* backend.go 36-40: entering the select evaluates time.After, which arms
\* the timer; a result already in the channel is received at once,
\* otherwise the caller waits on both channels
RunSelect ==
    /\ run # <<>>
    /\ run[Cur].at = "select"
    /\ run' = [run EXCEPT ![Cur].timer = "armed",
                          ![Cur].at = IF run[Cur].done # <<>> THEN "got_done" ELSE "parked",
                          ![Cur].done = <<>>,
                          ![Cur].result = IF run[Cur].done # <<>>
                                          THEN <<run[Cur].done[1]>> ELSE <<>>]

\* backend.go 37-39
RunReturnResult ==
    /\ run # <<>>
    /\ run[Cur].at = "got_done"
    /\ run' = [run EXCEPT ![Cur].at = "returned",
                          ![Cur].result = Received(run[Cur].result[1])]

\* backend.go 41-43: Kill, when the worker has started the process by now;
\* killing a process that has ended has no effect
RunKill ==
    /\ run # <<>>
    /\ run[Cur].at = "got_timer"
    /\ run' = [run EXCEPT ![Cur].at = "kill_done",
                          ![Cur].cmd = IF @ = "running" THEN "killed" ELSE @]

\* backend.go 44
RunReturnTimeout ==
    /\ run # <<>>
    /\ run[Cur].at = "kill_done"
    /\ run' = [run EXCEPT ![Cur].at = "returned", ![Cur].result = TimedOut]

\* backend.go 40: the timer of a call fires; a caller waiting in the select
\* takes the timer case
TimerFire ==
    \E i \in 1..Len(run) :
        /\ run[i].timer = "armed"
        /\ run' = [run EXCEPT ![i].timer = "fired",
                              ![i].at = IF Parked(run[i]) THEN "got_timer" ELSE @,
                              ![i].first = IF @ = "none" THEN "fired" ELSE @]

\* backend.go 29: CombinedOutput starts the process, or fails to
WorkerStart(i) ==
    /\ run[i].worker = "start"
    /\ \/ run' = [run EXCEPT ![i].worker = "wait", ![i].cmd = "running"]
       \/ run' = [run EXCEPT ![i].worker = "send", ![i].cmd = "failed",
                             ![i].outcome = ExecFailed]

\* the command ends by itself
CmdExits ==
    \E i \in 1..Len(run), o \in Outcomes :
        /\ run[i].cmd = "running"
        /\ run' = [run EXCEPT ![i].cmd = "exited", ![i].outcome = o]

\* backend.go 29: CombinedOutput returns once the process has ended
WorkerReap(i) ==
    /\ run[i].worker = "wait"
    /\ run[i].cmd \in {"exited", "killed"}
    /\ run' = [run EXCEPT ![i].worker = "send",
                          ![i].outcome = IF run[i].cmd = "killed" THEN Killed ELSE @]

\* a send on the channel can proceed when the buffer has room or a
\* receiver waits
CanSend_Unbuffered(r) == Parked(r)
CanSend(r) == Len(r.done) < DoneCap \/ Parked(r)

\* backend.go 30-33: a waiting caller is handed the value and takes the
\* channel case, otherwise the value stays in the buffer
WorkerSend(i) ==
    /\ run[i].worker = "send"
    /\ CanSend(run[i])
    /\ run' = [run EXCEPT ![i].worker = "done",
                          ![i].at = IF Parked(run[i]) THEN "got_done" ELSE @,
                          ![i].result = IF Parked(run[i]) THEN <<run[i].outcome>> ELSE @,
                          ![i].done = IF Parked(run[i]) THEN @ ELSE Append(@, run[i].outcome),
                          ![i].first = IF @ = "none" THEN "delivered" ELSE @]

RunOthers ==
    UNCHANGED <<moreVars, pass, call, given, keys, envVars, ttyVars, ioVars, ctlVars,
                sigVars, endVars, app, inVars, histVars>>

CallerStep ==
    (RunCall \/ RunGo \/ RunSelect \/ RunReturnResult \/ RunKill \/ RunReturnTimeout)
        /\ RunOthers
WorkerStep(i) == (WorkerStart(i) \/ WorkerReap(i) \/ WorkerSend(i)) /\ RunOthers
WorkerSteps == \E i \in 1..Len(run) : WorkerStep(i)
TimerStep == TimerFire /\ RunOthers
CmdStep == CmdExits /\ RunOthers

RunStart ==
    /\ DecStart
    /\ wire = <<>>
    /\ typed = wire
    /\ pc = [t \in Threads |-> IF t = "main" THEN "run_idle" ELSE "s_wait"]
    /\ ret = [t \in Threads |-> "none"]

RunNext == CallerStep \/ WorkerSteps \/ TimerStep \/ CmdStep

\* the scheduler runs the caller and every worker that can take a step,
\* and an armed timer fires; a command need not end by itself
RunSpec ==
    /\ RunStart
    /\ [][RunNext]_vars
    /\ WF_vars(CallerStep)
    /\ WF_vars(TimerStep)
    /\ \A i \in 1..MaxRuns : WF_vars(i <= Len(run) /\ WorkerStep(i))

\* ------------------------------------------------------------------------
\* Backend.run: one result per call, and the worker is never left behind
\* ------------------------------------------------------------------------
RunCalls == 1..Len(run)
RunReturned(r) == r.at = "returned"

\* the call has returned what its order of events asks for
RightResult(r) ==
    r.result = IF r.first = "delivered" THEN Received(r.outcome) ELSE TimedOut

\* a call that has returned keeps its result
ResultKept ==
    \A i \in RunCalls :
        RunReturned(run[i]) => /\ RunReturned(run'[i])
                            /\ run'[i].result = run[i].result

\* C39: every Backend.run call returns exactly one result to its caller
\* (a call that is made returns, and a result once returned is never
\* replaced): the command's own outcome, trimmed, when the worker delivered
\* it before the timer fired, and otherwise failure with the text "command
\* timed out"; in both orders the worker's send on the channel can proceed
\* whenever the worker reaches it, at most one value is ever in the channel,
\* and a worker whose command has ended delivers and finishes.
C39_OneResult ==
    /\ [](\A i \in RunCalls :
            /\ RunReturned(run[i]) => RightResult(run[i])
            /\ Len(run[i].done) <= 1
            /\ run[i].worker = "send" => ENABLED WorkerSend(i))
    /\ [][ResultKept]_vars
    /\ \A i \in 1..MaxRuns :
            /\ (i <= Len(run)) ~> (i <= Len(run) /\ RunReturned(run[i]))
            /\ (i <= Len(run) /\ \/ run[i].worker = "send"
                                 \/ run[i].worker = "wait" /\ run[i].cmd \in {"exited", "killed"})
                   ~> (i <= Len(run) /\ run[i].worker = "done")

\* both orders have happened: the first call timed out, its command was
\* killed and its worker delivered into the channel afterwards and finished;
\* the second call returned its command's successful outcome
C39_Witness ==
    /\ Len(run) = 2
    /\ RunReturned(run[1]) /\ run[1].result = TimedOut /\ run[1].first = "fired"
    /\ run[1].cmd = "killed" /\ run[1].worker = "done" /\ run[1].done = <<Killed>>
    /\ RunReturned(run[2]) /\ run[2].first = "delivered" /\ run[2].worker = "done"
    /\ run[2].result = [ok |-> TRUE, out |-> <<111, 107>>]

====
